---- MODULE Spec2Model ----
(***************************************************************************)
(* A model of the PLONKish arithmetization engine (column queries, gates,  *)
(* lookups, equality constraints, region layout, satisfiability checker)   *)
(* and of the example circuits of the repository that are its clients.     *)
(*                                                                         *)
(* Field elements are integers modulo the prime P.  The repository runs    *)
(* over the BN256 scalar field; the model keeps the field structure and    *)
(* uses a small prime so that the model checker can enumerate it.          *)
(***************************************************************************)
EXTENDS Integers, Sequences, FiniteSets, TLC

VARIABLES circuit, input, pc, prover, cells, result

vars == <<circuit, input, pc, prover, cells, result>>

(***************************************************************************)
(* Field collaborator                                                      *)
(***************************************************************************)
P == 521

Fp == 0 .. (P - 1)

FAdd(x, y) == (x + y) % P

FSub(x, y) == (x - y + P) % P

FMul(x, y) == (x * y) % P

FNeg(x) == (P - x) % P

Max(x, y) == IF x >= y THEN x ELSE y

SetMin(S) == CHOOSE x \in S : \A y \in S : x <= y

RECURSIVE Pow2(_)
Pow2(n) == IF n = 0 THEN 1 ELSE 2 * Pow2(n - 1)

(***************************************************************************)
(* Expression tree                                                         *)
(***************************************************************************)
Constant(v) == [tag |-> "Constant", v |-> v]

QueryAdvice(col, rot) == [tag |-> "Advice", col |-> col, rot |-> rot]

QueryFixed(col, rot) == [tag |-> "Fixed", col |-> col, rot |-> rot]

QuerySelector(s) == [tag |-> "Selector", sel |-> s]

Negated(e) == [tag |-> "Negated", a |-> e]

Sum(a, b) == [tag |-> "Sum", a |-> a, b |-> b]

Product(a, b) == [tag |-> "Product", a |-> a, b |-> b]

Scaled(e, f) == [tag |-> "Scaled", a |-> e, f |-> f]

Sub(a, b) == Sum(a, Negated(b))

RotCur == 0

RotPrev == -1

RotNext == 1

\* evaluation errors are negative, field elements are in 0 .. P-1
UnassignedCell == -1

OutOfBounds == -2

Height(L) == Pow2(L.k)

\* an unassigned cell read as zero
ReadCell_zero(L, col, row) ==
    IF row < 0 \/ row >= Height(L) THEN OutOfBounds
    ELSE IF <<col, row>> \in DOMAIN L.grid THEN L.grid[<<col, row>>]
    ELSE 0

ReadCell(L, col, row) ==
    IF row < 0 \/ row >= Height(L) THEN OutOfBounds
    ELSE IF <<col, row>> \in DOMAIN L.grid THEN L.grid[<<col, row>>]
    ELSE UnassignedCell

Lift1(x, r) == IF x < 0 THEN x ELSE r

Lift2(x, y, r) == IF x < 0 THEN x ELSE IF y < 0 THEN y ELSE r

RECURSIVE Eval(_, _, _)
Eval(e, L, row) ==
    CASE e.tag = "Constant" -> e.v
      [] e.tag = "Advice" -> ReadCell(L, e.col, row + e.rot)
      [] e.tag = "Fixed" -> ReadCell(L, e.col, row + e.rot)
      [] e.tag = "Selector" -> IF <<e.sel, row>> \in L.sels THEN 1 ELSE 0
      [] e.tag = "Negated" ->
            LET x == Eval(e.a, L, row) IN Lift1(x, FNeg(x))
      [] e.tag = "Sum" ->
            LET x == Eval(e.a, L, row)
                y == Eval(e.b, L, row)
            IN Lift2(x, y, FAdd(x, y))
      [] e.tag = "Product" ->
            LET x == Eval(e.a, L, row)
                y == Eval(e.b, L, row)
            IN Lift2(x, y, FMul(x, y))
      [] e.tag = "Scaled" ->
            LET x == Eval(e.a, L, row) IN Lift1(x, FMul(x, e.f))

RECURSIVE SelectorsOf(_)
SelectorsOf(e) ==
    CASE e.tag = "Selector" -> {e.sel}
      [] e.tag \in {"Constant", "Advice", "Fixed"} -> {}
      [] e.tag \in {"Negated", "Scaled"} -> SelectorsOf(e.a)
      [] e.tag \in {"Sum", "Product"} -> SelectorsOf(e.a) \cup SelectorsOf(e.b)

(***************************************************************************)
(* Witness grid and layouter.  A prover state L is a record                *)
(*   k      domain size exponent, the grid has 2^k rows                    *)
(*   inst   the public inputs, in order                                    *)
(*   grid   assigned cells: <<column, absolute row>> -> field element      *)
(*   sels   enabled selector rows: <<selector, absolute row>>              *)
(*   eqs    recorded equality pairs, each a set of two cells               *)
(*   binds  constrained-instance bindings [cell, irow]                     *)
(*   table  loaded table cells: <<table column, index>> -> field element   *)
(*   next   first row after every allocated region                         *)
(*   err    "none" or the error that aborted synthesis                     *)
(***************************************************************************)
NewProver(k, inst) ==
    [k |-> k, inst |-> inst, grid |-> <<>>, sels |-> {}, eqs |-> {},
     binds |-> {}, table |-> <<>>, next |-> 0, err |-> "none"]

Fail(L, e) == [L EXCEPT !.err = e]

InstanceValue(L, irow) ==
    IF irow >= 0 /\ irow < Len(L.inst) THEN L.inst[irow + 1] ELSE OutOfBounds

ValueOf(L, cell) ==
    IF cell[1] = "instance" THEN InstanceValue(L, cell[2])
    ELSE ReadCell(L, cell[1], cell[2])

EnableSelector(L, sel, row) ==
    IF L.err # "none" THEN L
    ELSE IF row >= Height(L) THEN Fail(L, "RowOutOfRange")
    ELSE [L EXCEPT !.sels = @ \cup {<<sel, row>>}, !.next = Max(@, row + 1)]

AssignAdvice(L, col, row, v) ==
    IF L.err # "none" THEN L
    ELSE IF row >= Height(L) THEN Fail(L, "RowOutOfRange")
    ELSE IF <<col, row>> \in DOMAIN L.grid
         THEN IF L.grid[<<col, row>>] = v THEN L ELSE Fail(L, "Shadowing")
    ELSE [L EXCEPT !.grid = (<<col, row>> :> v) @@ @, !.next = Max(@, row + 1)]

AssignFixed(L, col, row, v) == AssignAdvice(L, col, row, v)

AssignAdviceFromInstance(permuted, L, icol, irow, col, row) ==
    IF L.err # "none" THEN L
    ELSE IF ~({icol, col} \subseteq permuted) THEN Fail(L, "ColumnNotPermuted")
    ELSE IF InstanceValue(L, irow) < 0 THEN Fail(L, "OutOfBounds")
    ELSE LET L1 == AssignAdvice(L, col, row, InstanceValue(L, irow))
         IN IF L1.err # "none" THEN L1
            ELSE [L1 EXCEPT !.eqs = @ \cup {{<<col, row>>, <<icol, irow>>}}]

CopyAdvice(permuted, L, src, col, row) ==
    IF L.err # "none" THEN L
    ELSE IF ~({src[1], col} \subseteq permuted) THEN Fail(L, "ColumnNotPermuted")
    ELSE IF ValueOf(L, src) < 0 THEN Fail(L, "UnassignedCell")
    ELSE LET L1 == AssignAdvice(L, col, row, ValueOf(L, src))
         IN IF L1.err # "none" THEN L1
            ELSE [L1 EXCEPT !.eqs = @ \cup {{src, <<col, row>>}}]

\* constant-loading shortcut: the value is written to the advice cell and to
\* the next free row of the fixed column passed to enable_constant, and the
\* two cells are recorded as equal
AssignAdviceFromConstant(permuted, L, ccol, col, row, v) ==
    IF L.err # "none" THEN L
    ELSE IF ~({ccol, col} \subseteq permuted) THEN Fail(L, "ColumnNotPermuted")
    ELSE LET L1 == AssignAdvice(L, col, row, v)
             crow == Cardinality({c \in DOMAIN L.grid : c[1] = ccol})
         IN IF L1.err # "none" THEN L1
            ELSE IF crow >= Height(L) THEN Fail(L, "RowOutOfRange")
            ELSE [L1 EXCEPT !.grid = (<<ccol, crow>> :> v) @@ @,
                            !.eqs = @ \cup {{<<col, row>>, <<ccol, crow>>}}]

ConstrainInstance(permuted, L, cell, icol, irow) ==
    IF L.err # "none" THEN L
    ELSE IF ~({cell[1], icol} \subseteq permuted) THEN Fail(L, "ColumnNotPermuted")
    ELSE [L EXCEPT !.binds = @ \cup {[cell |-> cell, irow |-> irow]}]

\* a table cell re-assigned with another value overwritten
AssignTableCell_overwrite(L, tcol, idx, v) ==
    IF L.err # "none" THEN L
    ELSE IF idx >= Height(L) THEN Fail(L, "RowOutOfRange")
    ELSE [L EXCEPT !.table = (<<tcol, idx>> :> v) @@ @]

AssignTableCell(L, tcol, idx, v) ==
    IF L.err # "none" THEN L
    ELSE IF idx >= Height(L) THEN Fail(L, "RowOutOfRange")
    ELSE IF <<tcol, idx>> \in DOMAIN L.table
         THEN IF L.table[<<tcol, idx>>] = v THEN L ELSE Fail(L, "Shadowing")
    ELSE [L EXCEPT !.table = (<<tcol, idx>> :> v) @@ @]

(***************************************************************************)
(* Satisfiability checker.  A constraint system CS is a record             *)
(*   columns   the registered columns, in allocation order                 *)
(*   permuted  the columns passed to enable_equality                       *)
(*   gates     sequence of [name, polys]                                   *)
(*   lookups   sequence of [name, inputs, table]                           *)
(* A gate or lookup is active at the rows where every selector it queries  *)
(* is enabled; one that queries no selector is always on.                  *)
(***************************************************************************)
Rows(L) == 0 .. (Height(L) - 1)

RECURSIVE UnionSelectors(_)
UnionSelectors(polys) ==
    IF polys = <<>> THEN {}
    ELSE SelectorsOf(Head(polys)) \cup UnionSelectors(Tail(polys))

\* a gate or lookup checked also at the row after an enabled one
Active_row_after(polys, L, row) ==
    \A s \in UnionSelectors(polys) : <<s, row>> \in L.sels \/ <<s, row - 1>> \in L.sels

Active(polys, L, row) == \A s \in UnionSelectors(polys) : <<s, row>> \in L.sels

ColIndex(CS, col) ==
    IF \E i \in 1 .. Len(CS.columns) : CS.columns[i] = col
    THEN CHOOSE i \in 1 .. Len(CS.columns) : CS.columns[i] = col
    ELSE 0

Failure(cat, name, row, ord, idx, reason, cs) ==
    [cat |-> cat, name |-> name, row |-> row, ord |-> ord, idx |-> idx,
     reason |-> reason, cells |-> cs]

Reason(v) ==
    IF v = UnassignedCell THEN "UnassignedCell"
    ELSE IF v = OutOfBounds THEN "OutOfBounds"
    ELSE "nonzero"

\* step 1: per gate and active row, the first constraint that does not vanish
BadPolys(g, L, row) == {i \in 1 .. Len(g.polys) : Eval(g.polys[i], L, row) # 0}

GateFailures(CS, L) ==
    { Failure("gate", CS.gates[gr[1]].name, gr[2], gr[1],
              SetMin(BadPolys(CS.gates[gr[1]], L, gr[2])) - 1,
              Reason(Eval(CS.gates[gr[1]].polys[SetMin(BadPolys(CS.gates[gr[1]], L, gr[2]))],
                          L, gr[2])),
              {}) :
        gr \in { x \in (1 .. Len(CS.gates)) \X Rows(L) :
                   /\ Active(CS.gates[x[1]].polys, L, x[2])
                   /\ BadPolys(CS.gates[x[1]], L, x[2]) # {} } }

\* step 2: the evaluated input tuple is a row of the loaded table
LoadedIdx(L, tcols) ==
    { idx \in Rows(L) : \A i \in 1 .. Len(tcols) : <<tcols[i], idx>> \in DOMAIN L.table }

TableRows(L, tcols) ==
    { [i \in 1 .. Len(tcols) |-> L.table[<<tcols[i], idx>>]] : idx \in LoadedIdx(L, tcols) }

InputTuple(lk, L, row) == [i \in 1 .. Len(lk.inputs) |-> Eval(lk.inputs[i], L, row)]

LookupFailures(CS, L) ==
    { Failure("lookup", CS.lookups[lr[1]].name, lr[2], lr[1], 0, "not found in table", {}) :
        lr \in { x \in (1 .. Len(CS.lookups)) \X Rows(L) :
                   /\ Active(CS.lookups[x[1]].inputs, L, x[2])
                   /\ InputTuple(CS.lookups[x[1]], L, x[2])
                         \notin TableRows(L, CS.lookups[x[1]].table) } }

\* step 3: equivalence classes of the recorded pairs
RECURSIVE Closure(_, _)
Closure(S, eqs) ==
    LET T == S \cup UNION {p \in eqs : p \cap S # {}}
    IN IF T = S THEN S ELSE Closure(T, eqs)

Classes(L) == { Closure({c}, L.eqs) : c \in UNION L.eqs }

ClassRow(cls) == SetMin({c[2] : c \in cls})

ClassOrd(CS, cls) == SetMin({ColIndex(CS, c[1]) : c \in {d \in cls : d[2] = ClassRow(cls)}})

\* every recorded pair checked on its own, without the closure
EqualityFailures_pairwise(CS, L) ==
    { Failure("equality", "", ClassRow(cls), ClassOrd(CS, cls), 0,
              "copy constraint violated", cls) :
        cls \in { c \in L.eqs : \E x, y \in c : ValueOf(L, x) # ValueOf(L, y) } }

EqualityFailures(CS, L) ==
    { Failure("equality", "", ClassRow(cls), ClassOrd(CS, cls), 0,
              "copy constraint violated", cls) :
        cls \in { c \in Classes(L) : \E x, y \in c : ValueOf(L, x) # ValueOf(L, y) } }

\* step 4: constrained-instance bindings
InstanceFailures(CS, L) ==
    { Failure("instance", "", b.cell[2], ColIndex(CS, b.cell[1]), b.irow,
              "public input mismatch", {b.cell}) :
        b \in { x \in L.binds : ValueOf(L, x.cell) # InstanceValue(L, x.irow) } }

\* step 5: ascending row order inside a category
Before(f, g) ==
    \/ f.row < g.row
    \/ f.row = g.row /\ f.ord < g.ord
    \/ f.row = g.row /\ f.ord = g.ord /\ f.idx <= g.idx

RECURSIVE SortFailures(_)
SortFailures(S) ==
    IF S = {} THEN <<>>
    ELSE LET f == CHOOSE x \in S : \A y \in S : Before(x, y)
         IN <<f>> \o SortFailures(S \ {f})

\* the checker returning at the first category that has a failure
Verify_first_category(CS, L) ==
    IF GateFailures(CS, L) # {} THEN SortFailures(GateFailures(CS, L))
    ELSE IF LookupFailures(CS, L) # {} THEN SortFailures(LookupFailures(CS, L))
    ELSE IF EqualityFailures(CS, L) # {} THEN SortFailures(EqualityFailures(CS, L))
    ELSE SortFailures(InstanceFailures(CS, L))

Verify(CS, L) ==
    SortFailures(GateFailures(CS, L)) \o SortFailures(LookupFailures(CS, L))
       \o SortFailures(EqualityFailures(CS, L)) \o SortFailures(InstanceFailures(CS, L))

(***************************************************************************)
(* Bounds of the model                                                     *)
(***************************************************************************)
\* largest number of recurrence terms of the copy-chained circuit
MaxTerms == 19

\* longest input vector of the sort circuit (the test vector is added to it)
MaxLen == 3

\* rows of a directly supplied witness
WitnessRows == 2

(***************************************************************************)
(* example4: copy-chained additive recurrence                              *)
(***************************************************************************)
\* the gate written as a - b - c
FabonacciChip_configure_sub ==
    [columns |-> <<"a", "b", "c", "instance">>,
     permuted |-> {"a", "b", "c", "instance"},
     gates |-> << [name |-> "addition gate",
                   polys |-> << Product(QuerySelector("selector"),
                                        Sub(Sub(QueryAdvice("a", RotCur),
                                                QueryAdvice("b", RotCur)),
                                            QueryAdvice("c", RotCur))) >>] >>,
     lookups |-> <<>>]

FabonacciChip_configure ==
    [columns |-> <<"a", "b", "c", "instance">>,
     permuted |-> {"a", "b", "c", "instance"},
     gates |-> << [name |-> "addition gate",
                   polys |-> << Product(QuerySelector("selector"),
                                        Sub(Sum(QueryAdvice("a", RotCur),
                                                QueryAdvice("b", RotCur)),
                                            QueryAdvice("c", RotCur))) >>] >>,
     lookups |-> <<>>]

(***************************************************************************)
(* sort: the Lt chip and the adjacency test circuit                        *)
(***************************************************************************)
\* LtConfig<F, 8>
N_BYTES == 8

\* radix of one diff limb (256 in the source; the model keeps the eight
\* limbs and narrows each one so that the comparison range 2^N_BYTES stays
\* below the modulus, as 2^64 does in the source)
ByteBase == 2

RECURSIVE FPow(_, _)
FPow(b, n) == IF n = 0 THEN 1 ELSE FMul(b, FPow(b, n - 1))

diff == <<"diff0", "diff1", "diff2", "diff3", "diff4", "diff5", "diff6", "diff7">>

range == FPow(ByteBase, N_BYTES)

RECURSIVE expr_from_bytes_loop(_, _, _)
expr_from_bytes_loop(bytes, value, multiplier) ==
    IF bytes = <<>> THEN value
    ELSE expr_from_bytes_loop(Tail(bytes), Sum(value, Scaled(Head(bytes), multiplier)),
                              FMul(multiplier, ByteBase))

expr_from_bytes(bytes) == expr_from_bytes_loop(bytes, Constant(0), 1)

RECURSIVE range_check_fold(_, _, _, _)
range_check_fold(acc, word, i, rng) ==
    IF i >= rng THEN acc
    ELSE range_check_fold(Product(acc, Sub(Constant(i % P), word)), word, i + 1, rng)

\* the fold taken over 1..=range
range_check_inclusive(word, rng) == range_check_fold(word, word, 1, rng + 1)

range_check(word, rng) == range_check_fold(word, word, 1, rng)

bool_check(value) == range_check(value, 2)

LtChip_configure(q_enable, lhs, rhs) ==
    LET lt == QueryAdvice("lt", RotCur)
        diff_bytes == [i \in 1 .. N_BYTES |-> QueryAdvice(diff[i], RotCur)]
        check_a == Sum(Sub(Sub(lhs, rhs), expr_from_bytes(diff_bytes)), Scaled(lt, range))
        check_b == bool_check(lt)
    IN [name |-> "lt gate",
        polys |-> << Product(q_enable, check_a), Product(q_enable, check_b) >>]

\* the adjacency gate left out
TestCircuit_configure_unchecked ==
    [columns |-> <<"value", "check", "lt">> \o SubSeq(diff, 1, N_BYTES),
     permuted |-> {},
     gates |-> << LtChip_configure(QuerySelector("q_enable"),
                                   QueryAdvice("value", RotPrev),
                                   QueryAdvice("value", RotCur)) >>,
     lookups |-> <<>>]

TestCircuit_configure ==
    [columns |-> <<"value", "check", "lt">> \o SubSeq(diff, 1, N_BYTES),
     permuted |-> {},
     gates |-> << LtChip_configure(QuerySelector("q_enable"),
                                   QueryAdvice("value", RotPrev),
                                   QueryAdvice("value", RotCur)),
                  [name |-> "check is_lt between adjacent rows",
                   polys |-> << Product(QuerySelector("q_enable"),
                                        Sub(QueryAdvice("lt", RotCur),
                                            QueryAdvice("check", RotCur))) >>] >>,
     lookups |-> <<>>]

(***************************************************************************)
(* test1 and test2: the selection gate                                     *)
(***************************************************************************)
\* the two branches multiplied by the wrong factors
FunctionChip_gate_swapped(s, cond, thenval, elseval, output) ==
    LET one == Constant(1)
    IN Product(s, Sub(Sum(Product(cond, elseval), Product(Sub(one, cond), thenval)),
                      output))

FunctionChip_gate(s, cond, thenval, elseval, output) ==
    LET one == Constant(1)
    IN Product(s, Sub(Sum(Product(cond, thenval), Product(Sub(one, cond), elseval)),
                      output))

\* the instance column passed to enable_equality as well
FunctionChip_configure_instance_permuted ==
    [columns |-> <<"cond", "thenval", "elseval", "output", "instance">>,
     permuted |-> {"cond", "thenval", "elseval", "output", "instance"},
     gates |-> << [name |-> "f(a, b, c) = if a == b {c} else {a - b}",
                   polys |-> << FunctionChip_gate(QuerySelector("selector"),
                                                  QueryAdvice("cond", RotCur),
                                                  QueryAdvice("thenval", RotCur),
                                                  QueryAdvice("elseval", RotCur),
                                                  QueryAdvice("output", RotCur)) >>] >>,
     lookups |-> <<>>]

\* the gate polynomial not multiplied by the selector
FunctionChip_configure_always_on ==
    [columns |-> <<"cond", "thenval", "elseval", "output", "instance">>,
     permuted |-> {"cond", "thenval", "elseval", "output"},
     gates |-> << [name |-> "f(a, b, c) = if a == b {c} else {a - b}",
                   polys |-> << FunctionChip_gate(Constant(1),
                                                  QueryAdvice("cond", RotCur),
                                                  QueryAdvice("thenval", RotCur),
                                                  QueryAdvice("elseval", RotCur),
                                                  QueryAdvice("output", RotCur)) >>] >>,
     lookups |-> <<>>]

FunctionChip_configure ==
    [columns |-> <<"cond", "thenval", "elseval", "output", "instance">>,
     permuted |-> {"cond", "thenval", "elseval", "output"},
     gates |-> << [name |-> "f(a, b, c) = if a == b {c} else {a - b}",
                   polys |-> << FunctionChip_gate(QuerySelector("selector"),
                                                  QueryAdvice("cond", RotCur),
                                                  QueryAdvice("thenval", RotCur),
                                                  QueryAdvice("elseval", RotCur),
                                                  QueryAdvice("output", RotCur)) >>] >>,
     lookups |-> <<>>]

\* the branches of the gate exchanged
Test2Chip_gate_swapped(s, one, a, b, c, out) ==
    Product(s, Sub(Sum(Product(a, c), Product(Sub(one, a), b)), out))

Test2Chip_gate(s, one, a, b, c, out) ==
    Product(s, Sub(Sum(Product(a, b), Product(Sub(one, a), c)), out))

Test2Chip_configure ==
    [columns |-> <<"col_one", "col_a", "col_b", "col_c", "col_out", "instance">>,
     permuted |-> {"col_a", "col_b", "col_c", "col_out", "instance"},
     gates |-> << [name |-> "add",
                   polys |-> << Test2Chip_gate(QuerySelector("selector"),
                                               QueryFixed("col_one", RotCur),
                                               QueryAdvice("col_a", RotCur),
                                               QueryAdvice("col_b", RotCur),
                                               QueryAdvice("col_c", RotCur),
                                               QueryAdvice("col_out", RotCur)) >>] >>,
     lookups |-> <<>>]

(***************************************************************************)
(* fibodynamic: add gate and XOR lookup                                    *)
(***************************************************************************)
FibonacciChip_configure ==
    [columns |-> <<"col_a", "col_b", "col_c", "instance">>,
     permuted |-> {"col_a", "col_b", "col_c", "instance"},
     gates |-> << [name |-> "add",
                   polys |-> << Product(QuerySelector("s_add"),
                                        Sub(Sum(QueryAdvice("col_a", RotCur),
                                                QueryAdvice("col_b", RotCur)),
                                            QueryAdvice("col_c", RotCur))) >>] >>,
     lookups |-> << [name |-> "lookup",
                     inputs |-> << Product(QuerySelector("s_xor"), QueryAdvice("col_a", RotCur)),
                                   Product(QuerySelector("s_xor"), QueryAdvice("col_b", RotCur)),
                                   Product(QuerySelector("s_xor"), QueryAdvice("col_c", RotCur)) >>,
                     table |-> <<"xor_table0", "xor_table1", "xor_table2">>] >>]

(***************************************************************************)
(* hash_check: three-column lookup against the hash table                  *)
(***************************************************************************)
HashCheckConfig_configure ==
    [columns |-> <<"lhs", "rhs", "value">>,
     permuted |-> {},
     gates |-> <<>>,
     lookups |-> << [name |-> "lookup",
                     inputs |-> << Product(QuerySelector("q_lookup"), QueryAdvice("lhs", RotCur)),
                                   Product(QuerySelector("q_lookup"), QueryAdvice("rhs", RotCur)),
                                   Product(QuerySelector("q_lookup"), QueryAdvice("value", RotCur)) >>,
                     table |-> <<"input_a", "input_b", "hash_value">>] >>]

(***************************************************************************)
(* simple_example: the multiplication chip                                 *)
(***************************************************************************)
FieldChip_configured ==
    [columns |-> <<"advice0", "advice1", "instance", "constant">>,
     permuted |-> {"instance", "constant", "advice0", "advice1"},
     gates |-> << [name |-> "mul",
                   polys |-> << Product(QuerySelector("s_mul"),
                                        Sub(Product(QueryAdvice("advice0", RotCur),
                                                    QueryAdvice("advice1", RotCur)),
                                            QueryAdvice("advice0", RotNext))) >>] >>,
     lookups |-> <<>>]

(***************************************************************************)
(* table: single-column lookup                                             *)
(***************************************************************************)
TestConfig_configure ==
    [columns |-> <<"a">>,
     permuted |-> {},
     gates |-> <<>>,
     lookups |-> << [name |-> "lookup",
                     inputs |-> << Product(QuerySelector("q_selector"),
                                           QueryAdvice("a", RotCur)) >>,
                     table |-> <<"col_value">>] >>]

ConstraintSystem(c) ==
    CASE c = "example4" -> FabonacciChip_configure
      [] c = "table" -> TestConfig_configure
      [] c = "simple_example" -> FieldChip_configured
      [] c = "fibodynamic" -> FibonacciChip_configure
      [] c = "hash_check" -> HashCheckConfig_configure
      [] c = "test1" -> FunctionChip_configure
      [] c = "test2" -> Test2Chip_configure
      [] c = "sort" -> TestCircuit_configure

\* the n-th term (n >= 1) of the additive recurrence started at f0, f1
RECURSIVE Term(_, _, _)
Term(f0, f1, n) == IF n <= 1 THEN f0 ELSE Term(f1, FAdd(f0, f1), n - 1)

\* terms produced by MyCircuit::synthesize with field k = n: three by the
\* first region, one more per iteration of 3..k
TermsOf(n) == Max(n, 3)

Example4Init ==
    /\ circuit = "example4"
    /\ \E n \in 0 .. MaxTerms, f0 \in {1, 2}, f1 \in {1, 2}, d \in {0, 1} :
          /\ input = [k |-> n]
          /\ prover = NewProver(4, <<f0, f1, FAdd(Term(f0, f1, TermsOf(n)), d)>>)
    /\ pc = "assign_first_row"
    /\ cells = [n |-> 3, prev_b |-> <<"b", 0>>, prev_c |-> <<"c", 0>>]
    /\ result = [run |-> FALSE, failures |-> <<>>]

\* the error of a failed call dropped, the caller going on
Step_continue(L, ok) == ok

Step(L, ok) == IF L.err # "none" THEN "error" ELSE ok

FabonacciChip_assign_first_row ==
    /\ circuit = "example4"
    /\ pc = "assign_first_row"
    /\ LET CS == ConstraintSystem(circuit)
           off == prover.next
           L1 == EnableSelector(prover, "selector", off + 0)
           L2 == AssignAdviceFromInstance(CS.permuted, L1, "instance", 0, "a", off + 0)
           L3 == AssignAdviceFromInstance(CS.permuted, L2, "instance", 1, "b", off + 0)
           L4 == AssignAdvice(L3, "c", off + 0,
                              FAdd(ValueOf(L3, <<"a", off>>), ValueOf(L3, <<"b", off>>)))
       IN /\ prover' = L4
          /\ cells' = [n |-> 3, prev_b |-> <<"b", off>>, prev_c |-> <<"c", off>>]
          /\ pc' = Step(L4, "loop")
    /\ UNCHANGED <<circuit, input, result>>

\* c assigned the previous term instead of the sum
assign_row_no_sum(permuted, L, off, prev_b, prev_c) ==
    LET L1 == CopyAdvice(permuted, L, prev_b, "a", off + 0)
        L2 == CopyAdvice(permuted, L1, prev_c, "b", off + 0)
        res == ValueOf(L, prev_c)
    IN AssignAdvice(L2, "c", off + 0, res)

\* the region closure of assign_row, laid out at absolute row off
assign_row(permuted, L, off, prev_b, prev_c) ==
    LET L1 == CopyAdvice(permuted, L, prev_b, "a", off + 0)
        L2 == CopyAdvice(permuted, L1, prev_c, "b", off + 0)
        res == FAdd(ValueOf(L, prev_b), ValueOf(L, prev_c))
    IN AssignAdvice(L2, "c", off + 0, res)

FabonacciChip_assign_row ==
    /\ circuit = "example4"
    /\ pc = "loop"
    /\ cells.n < input.k
    /\ LET CS == ConstraintSystem(circuit)
           off == prover.next
           L3 == assign_row(CS.permuted, prover, off, cells.prev_b, cells.prev_c)
       IN /\ prover' = L3
          /\ cells' = [n |-> cells.n + 1, prev_b |-> cells.prev_c, prev_c |-> <<"c", off>>]
          /\ pc' = Step(L3, "loop")
    /\ UNCHANGED <<circuit, input, result>>

expose_public(permuted, L, out, row) ==
    ConstrainInstance(permuted, L, out, "instance", row)

FabonacciChip_expose_public ==
    /\ circuit = "example4"
    /\ pc = "loop"
    /\ ~(cells.n < input.k)
    /\ LET CS == ConstraintSystem(circuit)
           L1 == expose_public(CS.permuted, prover, cells.prev_c, 2)
       IN /\ prover' = L1
          /\ pc' = Step(L1, "synthesized")
    /\ UNCHANGED <<circuit, input, cells, result>>

(***************************************************************************)
(* test1: FunctionCircuit                                                  *)
(***************************************************************************)
CondValues == {0, 1, 2}

BranchValues == {2, 3}

NoCells == [n |-> 0]

NoResult == [run |-> FALSE, failures |-> <<>>]

Test1Init ==
    /\ circuit = "test1"
    /\ \E cond \in CondValues, thenval \in BranchValues, elseval \in BranchValues :
          /\ input = [cond |-> cond, thenval |-> thenval, elseval |-> elseval]
          /\ prover = NewProver(4, << IF cond = 1 THEN thenval ELSE elseval >>)
    /\ pc = "assign"
    /\ cells = NoCells
    /\ result = NoResult

FunctionChip_assign ==
    /\ circuit = "test1"
    /\ pc = "assign"
    /\ LET off == prover.next
           L1 == EnableSelector(prover, "selector", off + 0)
           L2 == AssignAdvice(L1, "cond", off + 0, input.cond)
           L3 == AssignAdvice(L2, "thenval", off + 0, input.thenval)
           L4 == AssignAdvice(L3, "elseval", off + 0, input.elseval)
           output == IF input.cond = 1 THEN input.thenval ELSE input.elseval
           L5 == AssignAdvice(L4, "output", off + 0, output)
       IN /\ prover' = L5
          /\ cells' = [n |-> 0, c |-> <<"output", off>>]
          /\ pc' = Step(L5, "expose_public")
    /\ UNCHANGED <<circuit, input, result>>

FunctionChip_expose_public ==
    /\ circuit = "test1"
    /\ pc = "expose_public"
    /\ LET CS == ConstraintSystem(circuit)
           L1 == ConstrainInstance(CS.permuted, prover, cells.c, "instance", 0)
       IN /\ prover' = L1
          /\ pc' = Step(L1, "synthesized")
    /\ UNCHANGED <<circuit, input, cells, result>>

(***************************************************************************)
(* test2: the selection circuit fed from the instance column               *)
(***************************************************************************)
Test2Init ==
    /\ circuit = "test2"
    /\ \E cond \in CondValues, thenval \in BranchValues, elseval \in BranchValues,
          outval \in BranchValues :
          /\ input = [n |-> 0]
          /\ prover = NewProver(4, <<cond, thenval, elseval, outval>>)
    /\ pc = "assign_first_row"
    /\ cells = NoCells
    /\ result = NoResult

Test2Chip_assign_first_row ==
    /\ circuit = "test2"
    /\ pc = "assign_first_row"
    /\ LET CS == ConstraintSystem(circuit)
           off == prover.next
           L1 == EnableSelector(prover, "selector", off + 0)
           L2 == AssignFixed(L1, "col_one", off + 0, 1)
           L3 == AssignAdviceFromInstance(CS.permuted, L2, "instance", 0, "col_a", off + 0)
           L4 == AssignAdviceFromInstance(CS.permuted, L3, "instance", 1, "col_b", off + 0)
           L5 == AssignAdviceFromInstance(CS.permuted, L4, "instance", 2, "col_c", off + 0)
           one == ValueOf(L5, <<"col_one", off>>)
           a == ValueOf(L5, <<"col_a", off>>)
           b == ValueOf(L5, <<"col_b", off>>)
           c == ValueOf(L5, <<"col_c", off>>)
           L6 == AssignAdvice(L5, "col_out", off + 0,
                              FAdd(FMul(a, b), FMul(FSub(one, a), c)))
       IN /\ prover' = L6
          /\ cells' = [n |-> 0, c |-> <<"col_out", off>>]
          /\ pc' = Step(L6, "expose_public")
    /\ UNCHANGED <<circuit, input, result>>

Test2Chip_expose_public ==
    /\ circuit = "test2"
    /\ pc = "expose_public"
    /\ LET CS == ConstraintSystem(circuit)
           L1 == ConstrainInstance(CS.permuted, prover, cells.c, "instance", 3)
       IN /\ prover' = L1
          /\ pc' = Step(L1, "synthesized")
    /\ UNCHANGED <<circuit, input, cells, result>>

(***************************************************************************)
(* Scenario A: a witness row for the selection gate supplied directly      *)
(* (cells may be left unassigned and the selector left disabled)           *)
(***************************************************************************)
SelectionCols(c) ==
    IF c = "test1" THEN <<"cond", "thenval", "elseval", "output">>
    ELSE <<"col_a", "col_b", "col_c", "col_out">>

RECURSIVE AssignRowValues(_, _, _, _, _, _)
AssignRowValues(L, cols, row, vals, skip, i) ==
    IF i > Len(cols) THEN L
    ELSE LET L1 == IF i \in skip THEN L ELSE AssignAdvice(L, cols[i], row, vals[i])
         IN IF L1.err # "none" THEN L1
            ELSE AssignRowValues(L1, cols, row, vals, skip, i + 1)

ScenarioAInit ==
    /\ circuit \in {"test1", "test2"}
    /\ input = [n |-> 0]
    /\ prover = NewProver(4, <<2>>)
    /\ pc = "witness"
    /\ cells = [n |-> 0, again |-> "none", cond |-> 0, req |-> "none"]
    /\ result = NoResult

ScenarioA_witness_row ==
    /\ circuit \in {"test1", "test2"}
    /\ pc = "witness"
    /\ \E cond \in {0, 1}, out \in BranchValues \cup {UnassignedCell},
          enable \in BOOLEAN, again \in {"none", "same", "other"} :
         LET off == prover.next
             cols == SelectionCols(circuit)
             L0 == IF circuit = "test2" THEN AssignFixed(prover, "col_one", off, 1)
                   ELSE prover
             L1 == IF enable THEN EnableSelector(L0, "selector", off) ELSE L0
             L2 == AssignRowValues(L1, cols, off, <<cond, 2, 3, out>>,
                                   IF out = UnassignedCell THEN {4} ELSE {}, 1)
             L3 == CASE again = "none" -> L2
                      [] again = "same" -> AssignAdvice(L2, cols[1], off, cond)
                      [] again = "other" -> AssignAdvice(L2, cols[1], off, FAdd(cond, 1))
         IN /\ prover' = L3
            /\ cells' = [n |-> cells.n + 1, again |-> again, cond |-> cond, req |-> "none"]
            /\ pc' = Step(L3, IF cells.n + 1 >= WitnessRows THEN "witness_request"
                                ELSE "witness")
    /\ UNCHANGED <<circuit, input, result>>

\* one equality-constraint request made after the witness rows: a copy of a
\* row-0 cell (the fixed cell of test2, the cond cell of test1) into a new
\* row, a load from instance row 0 into a new row, or a binding of the
\* row-0 output cell to instance row 0
EqualityRequests ==
    {"none", "copy_advice", "assign_advice_from_instance", "constrain_instance"}

RequestSource(c) == IF c = "test2" THEN <<"col_one", 0>> ELSE <<SelectionCols(c)[1], 0>>

RequestColumns(c, req) ==
    CASE req = "copy_advice" -> {RequestSource(c)[1], SelectionCols(c)[2]}
      [] req = "assign_advice_from_instance" -> {"instance", SelectionCols(c)[2]}
      [] req = "constrain_instance" -> {SelectionCols(c)[4], "instance"}
      [] req = "none" -> {}

ScenarioA_equality_request ==
    /\ circuit \in {"test1", "test2"}
    /\ pc = "witness_request"
    /\ \E req \in EqualityRequests :
         LET CS == ConstraintSystem(circuit)
             off == prover.next
             cols == SelectionCols(circuit)
             L1 == CASE req = "none" -> prover
                     [] req = "copy_advice" ->
                           CopyAdvice(CS.permuted, prover, RequestSource(circuit), cols[2], off)
                     [] req = "assign_advice_from_instance" ->
                           AssignAdviceFromInstance(CS.permuted, prover, "instance", 0,
                                                    cols[2], off)
                     [] req = "constrain_instance" ->
                           ConstrainInstance(CS.permuted, prover, <<cols[4], 0>>,
                                             "instance", 0)
         IN /\ prover' = L1
            /\ cells' = [cells EXCEPT !.req = req]
            /\ pc' = Step(L1, "synthesized")
    /\ UNCHANGED <<circuit, input, result>>

(***************************************************************************)
(* fibodynamic: table load and the mixed add / XOR recurrence              *)
(***************************************************************************)
RECURSIVE BitXor(_, _)
BitXor(x, y) ==
    IF x = 0 /\ y = 0 THEN 0
    ELSE (((x % 2) + (y % 2)) % 2) + 2 * BitXor(x \div 2, y \div 2)

\* for lhs in 0..32 { for rhs in 0..32 { ... } }
XorTableRange == 32

RECURSIVE load_table_rhs(_, _, _, _, _, _)

\* the third column loaded with lhs + rhs
load_table_rhs_sum(L, tcols, lhs, rhs, idx, rng) ==
    IF rhs >= rng THEN L
    ELSE LET L1 == AssignTableCell(L, tcols[1], idx, lhs % P)
             L2 == AssignTableCell(L1, tcols[2], idx, rhs % P)
             L3 == AssignTableCell(L2, tcols[3], idx, (lhs + rhs) % P)
         IN IF L3.err # "none" THEN L3
            ELSE load_table_rhs(L3, tcols, lhs, rhs + 1, idx + 1, rng)

load_table_rhs(L, tcols, lhs, rhs, idx, rng) ==
    IF rhs >= rng THEN L
    ELSE LET L1 == AssignTableCell(L, tcols[1], idx, lhs % P)
             L2 == AssignTableCell(L1, tcols[2], idx, rhs % P)
             L3 == AssignTableCell(L2, tcols[3], idx, BitXor(lhs, rhs) % P)
         IN IF L3.err # "none" THEN L3
            ELSE load_table_rhs(L3, tcols, lhs, rhs + 1, idx + 1, rng)

RECURSIVE load_table_lhs(_, _, _, _)
load_table_lhs(L, tcols, lhs, rng) ==
    IF lhs >= rng THEN L
    ELSE LET L1 == load_table_rhs(L, tcols, lhs, 0, lhs * rng, rng)
         IN IF L1.err # "none" THEN L1
            ELSE load_table_lhs(L1, tcols, lhs + 1, rng)

FibodynamicInit ==
    /\ circuit = "fibodynamic"
    /\ \E d \in {0, 1} :
          prover = NewProver(11, <<1, 1, FAdd(21, d)>>)
    /\ input = [nrows |-> 8, trange |-> XorTableRange]
    /\ pc = "load_table"
    /\ cells = NoCells
    /\ result = NoResult

FibonacciChip_load_table ==
    /\ circuit = "fibodynamic"
    /\ pc \in {"load_table", "witness_table"}
    /\ LET L1 == load_table_lhs(prover, <<"xor_table0", "xor_table1", "xor_table2">>,
                                0, input.trange)
       IN /\ prover' = L1
          /\ pc' = Step(L1, IF pc = "load_table" THEN "assign" ELSE "witness_reassign")
    /\ UNCHANGED <<circuit, input, cells, result>>

RECURSIVE FibonacciChip_assign_rows(_, _, _, _, _, _, _)

\* the odd rows assigned the sum instead of the XOR
FibonacciChip_assign_rows_sum(permuted, L, off, row, nrows, b_cell, c_cell) ==
    IF row >= nrows THEN [L |-> L, c_cell |-> c_cell]
    ELSE LET L1 == CopyAdvice(permuted, L, b_cell, "col_a", off + row)
             L2 == CopyAdvice(permuted, L1, c_cell, "col_b", off + row)
             b == ValueOf(L, b_cell)
             c == ValueOf(L, c_cell)
             L3 == IF row % 2 = 0
                   THEN AssignAdvice(EnableSelector(L2, "s_add", off + row),
                                     "col_c", off + row, FAdd(b, c))
                   ELSE AssignAdvice(EnableSelector(L2, "s_xor", off + row),
                                     "col_c", off + row, FAdd(b, c))
         IN IF L3.err # "none" THEN [L |-> L3, c_cell |-> c_cell]
            ELSE FibonacciChip_assign_rows(permuted, L3, off, row + 1, nrows,
                                           c_cell, <<"col_c", off + row>>)

FibonacciChip_assign_rows(permuted, L, off, row, nrows, b_cell, c_cell) ==
    IF row >= nrows THEN [L |-> L, c_cell |-> c_cell]
    ELSE LET L1 == CopyAdvice(permuted, L, b_cell, "col_a", off + row)
             L2 == CopyAdvice(permuted, L1, c_cell, "col_b", off + row)
             b == ValueOf(L, b_cell)
             c == ValueOf(L, c_cell)
             L3 == IF row % 2 = 0
                   THEN AssignAdvice(EnableSelector(L2, "s_add", off + row),
                                     "col_c", off + row, FAdd(b, c))
                   ELSE AssignAdvice(EnableSelector(L2, "s_xor", off + row),
                                     "col_c", off + row, BitXor(b, c) % P)
         IN IF L3.err # "none" THEN [L |-> L3, c_cell |-> c_cell]
            ELSE FibonacciChip_assign_rows(permuted, L3, off, row + 1, nrows,
                                           c_cell, <<"col_c", off + row>>)

FibonacciChip_assign ==
    /\ circuit = "fibodynamic"
    /\ pc = "assign"
    /\ LET CS == ConstraintSystem(circuit)
           off == prover.next
           L1 == EnableSelector(prover, "s_add", off + 0)
           L2 == AssignAdviceFromInstance(CS.permuted, L1, "instance", 0, "col_a", off + 0)
           L3 == AssignAdviceFromInstance(CS.permuted, L2, "instance", 1, "col_b", off + 0)
           L4 == AssignAdvice(L3, "col_c", off + 0,
                              FAdd(ValueOf(L3, <<"col_a", off>>), ValueOf(L3, <<"col_b", off>>)))
           R == IF L4.err # "none" THEN [L |-> L4, c_cell |-> <<"col_c", off>>]
                ELSE FibonacciChip_assign_rows(CS.permuted, L4, off, 1, input.nrows,
                                               <<"col_b", off>>, <<"col_c", off>>)
       IN /\ prover' = R.L
          /\ cells' = [n |-> 0, c |-> R.c_cell]
          /\ pc' = Step(R.L, "expose_public")
    /\ UNCHANGED <<circuit, input, result>>

FibonacciChip_expose_public ==
    /\ circuit = "fibodynamic"
    /\ pc = "expose_public"
    /\ LET CS == ConstraintSystem(circuit)
           L1 == ConstrainInstance(CS.permuted, prover, cells.c, "instance", 2)
       IN /\ prover' = L1
          /\ pc' = Step(L1, "synthesized")
    /\ UNCHANGED <<circuit, input, cells, result>>

(***************************************************************************)
(* Scenario L: the XOR table over {0,1}, witness rows supplied directly,   *)
(* then equality pairs and an instance binding on the cells of row 0       *)
(***************************************************************************)
ConstrainEqual(permuted, L, x, y) ==
    IF L.err # "none" THEN L
    ELSE IF ~({x[1], y[1]} \subseteq permuted) THEN Fail(L, "ColumnNotPermuted")
    ELSE [L EXCEPT !.eqs = @ \cup {{x, y}}]

RECURSIVE EnableAll(_, _, _)
EnableAll(L, S, row) ==
    IF S = {} THEN L
    ELSE LET s == CHOOSE x \in S : TRUE
         IN EnableAll(EnableSelector(L, s, row), S \ {s}, row)

RECURSIVE ConstrainAll(_, _, _)
ConstrainAll(permuted, L, pairs) ==
    IF pairs = <<>> THEN L
    ELSE ConstrainAll(permuted,
                      ConstrainEqual(permuted, L, Head(pairs)[1], Head(pairs)[2]),
                      Tail(pairs))

ScenarioLInit ==
    /\ circuit = "fibodynamic"
    /\ input = [nrows |-> WitnessRows, trange |-> 2]
    /\ prover = NewProver(4, <<1, 0>>)
    /\ pc = "witness_table"
    /\ cells = NoCells
    /\ result = NoResult

\* one more assign_cell on a row of the loaded table, with the value the
\* row holds or with another one
ScenarioL_reassign_table_row ==
    /\ circuit = "fibodynamic"
    /\ pc = "witness_reassign"
    /\ \E idx \in {0, 3}, v \in {0, 1} :
         LET L1 == AssignTableCell(prover, "xor_table2", idx, v)
         IN /\ prover' = L1
            /\ cells' = [n |-> 0, idx |-> idx, v |-> v]
            /\ pc' = Step(L1, "witness")
    /\ UNCHANGED <<circuit, input, result>>

ScenarioLRows == {<<1, 1, 0>>, <<1, 1, 1>>, <<0, 1, 1>>}

ScenarioL_witness_row ==
    /\ circuit = "fibodynamic"
    /\ pc = "witness"
    /\ \E abc \in ScenarioLRows, en \in SUBSET {"s_add", "s_xor"} :
         LET off == prover.next
             L1 == EnableAll(prover, en, off)
             L2 == AssignRowValues(L1, <<"col_a", "col_b", "col_c">>, off, abc, {}, 1)
         IN /\ prover' = L2
            /\ cells' = [n |-> cells.n + 1]
            /\ pc' = Step(L2, IF cells.n + 1 >= input.nrows THEN "witness_constraints"
                                ELSE "witness")
    /\ UNCHANGED <<circuit, input, result>>

ScenarioLPairs ==
    { <<>>,
      << <<<<"col_a", 0>>, <<"col_b", 0>>>> >>,
      << <<<<"col_b", 0>>, <<"col_c", 0>>>> >>,
      << <<<<"col_a", 0>>, <<"col_b", 0>>>>, <<<<"col_b", 0>>, <<"col_c", 0>>>> >> }

ScenarioL_constraints ==
    /\ circuit = "fibodynamic"
    /\ pc = "witness_constraints"
    /\ \E pairs \in ScenarioLPairs, bind \in {-1, 0, 1} :
         LET CS == ConstraintSystem(circuit)
             L1 == ConstrainAll(CS.permuted, prover, pairs)
             L2 == IF bind < 0 THEN L1
                   ELSE ConstrainInstance(CS.permuted, L1, <<"col_c", 0>>, "instance", bind)
         IN /\ prover' = L2
            /\ pc' = Step(L2, "synthesized")
    /\ UNCHANGED <<circuit, input, cells, result>>

(***************************************************************************)
(* hash_check: table load, simple region, lookup region                    *)
(***************************************************************************)
HashInit ==
    /\ circuit = "hash_check"
    /\ \E lr \in {2, 4}, i \in {0, 1, 7}, j \in {0, 1} :
          input = [k |-> 3, lookup_range |-> lr, value |-> i, lookup_value |-> j * (lr - 1)]
    /\ prover = NewProver(3, <<>>)
    /\ pc = "load"
    /\ cells = NoCells
    /\ result = NoResult

HashTableConfig_load ==
    /\ circuit = "hash_check"
    /\ pc = "load"
    /\ LET L1 == load_table_lhs(prover, <<"input_a", "input_b", "hash_value">>,
                                0, input.lookup_range)
       IN /\ prover' = L1
          /\ pc' = Step(L1, "assign_simple")
    /\ UNCHANGED <<circuit, input, cells, result>>

\* the result of a call whose Result is dropped: the error, if any, is lost
\* and the layouter is as the failed call left it (unchanged)
Discard(L1, L) == IF L1.err # "none" THEN L ELSE L1

\* the last assignment made with another value
assign_simple_other(L, off, value) ==
    LET offset == 0
        L1 == EnableSelector(L, "q_hash_check", off + offset)
        L2 == AssignAdvice(L1, "value", off + offset, value)
        L3 == Discard(AssignAdvice(L2, "value", off + offset, value), L2)
    IN AssignAdvice(L3, "value", off + offset, FAdd(value, 1))

\* the region closure of assign_simple, laid out at absolute row off
assign_simple(L, off, value) ==
    LET offset == 0
        L1 == EnableSelector(L, "q_hash_check", off + offset)
        L2 == AssignAdvice(L1, "value", off + offset, value)
        L3 == Discard(AssignAdvice(L2, "value", off + offset, value), L2)
    IN AssignAdvice(L3, "value", off + offset, value)

HashCheckConfig_assign_simple ==
    /\ circuit = "hash_check"
    /\ pc = "assign_simple"
    /\ LET off == prover.next
           offset == 0
           L4 == assign_simple(prover, off, input.value)
       IN /\ prover' = L4
          /\ cells' = [n |-> 0, c |-> <<"value", off + offset>>]
          /\ pc' = Step(L4, "assign_lookup")
    /\ UNCHANGED <<circuit, input, result>>

HashCheckConfig_assign_lookup ==
    /\ circuit = "hash_check"
    /\ pc = "assign_lookup"
    /\ LET off == prover.next
           offset == 0
           L1 == EnableSelector(prover, "q_lookup", off + offset)
           L2 == AssignAdvice(L1, "value", off + offset, input.lookup_value)
       IN /\ prover' = L2
          /\ pc' = Step(L2, "synthesized")
    /\ UNCHANGED <<circuit, input, cells, result>>

(***************************************************************************)
(* simple_example: constant * (a * b)^2                                    *)
(***************************************************************************)
MulConstants == {0, 7, P - 1}

MulInputsA == {0, 2, P - 1}

MulInputsB == {1, 3}

SimpleInit ==
    /\ circuit = "simple_example"
    /\ \E constant \in MulConstants, a \in MulInputsA, b \in MulInputsB, d \in {0, 1} :
          /\ input = [constant |-> constant, a |-> a, b |-> b]
          /\ prover = NewProver(5, << FAdd(FMul(constant, FMul(FMul(a, a), FMul(b, b))), d) >>)
    /\ pc = "load_a"
    /\ cells = NoCells
    /\ result = NoResult

FieldChip_load_private ==
    /\ circuit = "simple_example"
    /\ pc \in {"load_a", "load_b"}
    /\ LET off == prover.next
           L1 == AssignAdvice(prover, "advice0", off + 0,
                              IF pc = "load_a" THEN input.a ELSE input.b)
       IN /\ prover' = L1
          /\ cells' = IF pc = "load_a" THEN [n |-> 0, a |-> <<"advice0", off>>]
                      ELSE [n |-> 0, a |-> cells.a, b |-> <<"advice0", off>>]
          /\ pc' = Step(L1, IF pc = "load_a" THEN "load_b" ELSE "load_constant")
    /\ UNCHANGED <<circuit, input, result>>

FieldChip_load_constant ==
    /\ circuit = "simple_example"
    /\ pc = "load_constant"
    /\ LET CS == ConstraintSystem(circuit)
           off == prover.next
           L1 == AssignAdviceFromConstant(CS.permuted, prover, "constant", "advice0",
                                          off + 0, input.constant)
       IN /\ prover' = L1
          /\ cells' = [n |-> 0, a |-> cells.a, b |-> cells.b,
                       constant |-> <<"advice0", off>>]
          /\ pc' = Step(L1, "mul_ab")
    /\ UNCHANGED <<circuit, input, result>>

\* the product cell assigned one row too low
mul_row_two(permuted, L, off, a, b) ==
    LET L1 == EnableSelector(L, "s_mul", off + 0)
        L2 == CopyAdvice(permuted, L1, a, "advice0", off + 0)
        L3 == CopyAdvice(permuted, L2, b, "advice1", off + 0)
        value == FMul(ValueOf(L, a), ValueOf(L, b))
    IN AssignAdvice(L3, "advice0", off + 2, value)

\* the product cell assigned the sum
mul_sum(permuted, L, off, a, b) ==
    LET L1 == EnableSelector(L, "s_mul", off + 0)
        L2 == CopyAdvice(permuted, L1, a, "advice0", off + 0)
        L3 == CopyAdvice(permuted, L2, b, "advice1", off + 0)
        value == FAdd(ValueOf(L, a), ValueOf(L, b))
    IN AssignAdvice(L3, "advice0", off + 1, value)

\* the region closure of mul, laid out at absolute row off
mul(permuted, L, off, a, b) ==
    LET L1 == EnableSelector(L, "s_mul", off + 0)
        L2 == CopyAdvice(permuted, L1, a, "advice0", off + 0)
        L3 == CopyAdvice(permuted, L2, b, "advice1", off + 0)
        value == FMul(ValueOf(L, a), ValueOf(L, b))
    IN AssignAdvice(L3, "advice0", off + 1, value)

FieldChip_mul ==
    /\ circuit = "simple_example"
    /\ pc \in {"mul_ab", "mul_absq", "mul_c"}
    /\ LET CS == ConstraintSystem(circuit)
           off == prover.next
           a == CASE pc = "mul_ab" -> cells.a
                  [] pc = "mul_absq" -> cells.ab
                  [] pc = "mul_c" -> cells.constant
           b == CASE pc = "mul_ab" -> cells.b
                  [] pc = "mul_absq" -> cells.ab
                  [] pc = "mul_c" -> cells.absq
           L4 == mul(CS.permuted, prover, off, a, b)
           out == <<"advice0", off + 1>>
       IN /\ prover' = L4
          /\ cells' = CASE pc = "mul_ab" ->
                             [n |-> 0, a |-> cells.a, b |-> cells.b,
                              constant |-> cells.constant, ab |-> out]
                        [] pc = "mul_absq" ->
                             [n |-> 0, a |-> cells.a, b |-> cells.b,
                              constant |-> cells.constant, ab |-> cells.ab, absq |-> out]
                        [] pc = "mul_c" ->
                             [n |-> 0, a |-> cells.a, b |-> cells.b,
                              constant |-> cells.constant, ab |-> cells.ab,
                              absq |-> cells.absq, c |-> out]
          /\ pc' = Step(L4, CASE pc = "mul_ab" -> "mul_absq"
                              [] pc = "mul_absq" -> "mul_c"
                              [] pc = "mul_c" -> "expose_public")
    /\ UNCHANGED <<circuit, input, result>>

FieldChip_expose_public ==
    /\ circuit = "simple_example"
    /\ pc = "expose_public"
    /\ LET CS == ConstraintSystem(circuit)
           L1 == ConstrainInstance(CS.permuted, prover, cells.c, "instance", 0)
       IN /\ prover' = L1
          /\ pc' = Step(L1, "synthesized")
    /\ UNCHANGED <<circuit, input, cells, result>>

(***************************************************************************)
(* table: the loaded values and the looked-up witness                      *)
(***************************************************************************)
TableValues == <<0, 3, 4, 5, 7, 8, 15, 16, 18>>

TableTestValues == (0 .. 19) \cup {P - 1}

RECURSIVE RangTableConfig_load_values(_, _, _)

\* every cell loaded with its offset instead of its element
RangTableConfig_load_values_offset(L, values, offset) ==
    IF values = <<>> THEN L
    ELSE LET L1 == AssignTableCell(L, "col_value", offset, offset % P)
         IN IF L1.err # "none" THEN L1
            ELSE RangTableConfig_load_values(L1, Tail(values), offset + 1)

RangTableConfig_load_values(L, values, offset) ==
    IF values = <<>> THEN L
    ELSE LET L1 == AssignTableCell(L, "col_value", offset, Head(values) % P)
         IN IF L1.err # "none" THEN L1
            ELSE RangTableConfig_load_values(L1, Tail(values), offset + 1)

TableInit ==
    /\ circuit = "table"
    /\ \E v \in TableTestValues : input = [value |-> v]
    /\ prover = NewProver(4, <<>>)
    /\ pc = "load"
    /\ cells = NoCells
    /\ result = NoResult

RangTableConfig_load ==
    /\ circuit = "table"
    /\ pc = "load"
    /\ LET L1 == RangTableConfig_load_values(prover, TableValues, 0)
       IN /\ prover' = L1
          /\ pc' = Step(L1, "assign_columns")
    /\ UNCHANGED <<circuit, input, cells, result>>

TableCircuit_synthesize ==
    /\ circuit = "table"
    /\ pc = "assign_columns"
    /\ LET off == prover.next
           L1 == EnableSelector(prover, "q_selector", off + 0)
           L2 == AssignAdvice(L1, "a", off + 0, input.value)
       IN /\ prover' = L2
          /\ cells' = [n |-> 0, c |-> <<"a", off>>]
          /\ pc' = Step(L2, "synthesized")
    /\ UNCHANGED <<circuit, input, result>>

(***************************************************************************)
(* sort: witness generation                                                *)
(***************************************************************************)
RECURSIVE bubble_pass(_, _, _)
bubble_pass(target, j, length) ==
    IF j >= length - 1 THEN target
    ELSE IF target[j + 1] > target[j + 2]
         THEN bubble_pass([target EXCEPT ![j + 2] = target[j + 1],
                                         ![j + 1] = target[j + 2]], j + 1, length)
         ELSE bubble_pass(target, j + 1, length)

\* the outer loop run once
bubble_outer_once(target, i, length) ==
    IF i >= length THEN target ELSE bubble_pass(target, 0, length)

RECURSIVE bubble_outer(_, _, _)
bubble_outer(target, i, length) ==
    IF i >= length THEN target
    ELSE bubble_outer(bubble_pass(target, 0, length), i + 1, length)

bubble_sort(numbers) == bubble_outer(numbers, 0, Len(numbers))

\* limb idx of the canonical representation of a field element
ReprByte(v, idx) == (v \div FPow(ByteBase, idx)) % ByteBase

RECURSIVE LtChip_assign_diff(_, _, _, _)
LtChip_assign_diff(L, offset, d, idx) ==
    IF idx >= N_BYTES THEN L
    ELSE LET L1 == AssignAdvice(L, diff[idx + 1], offset, ReprByte(d, idx))
         IN IF L1.err # "none" THEN L1 ELSE LtChip_assign_diff(L1, offset, d, idx + 1)

\* the range not added back when lhs < rhs
LtChip_assign_no_borrow(L, offset, lhs, rhs) ==
    LET lt == lhs < rhs
        L1 == AssignAdvice(L, "lt", offset, IF lt THEN 1 ELSE 0)
        d == FSub(lhs, rhs)
    IN IF L1.err # "none" THEN L1 ELSE LtChip_assign_diff(L1, offset, d, 0)

LtChip_assign(L, offset, lhs, rhs) ==
    LET lt == lhs < rhs
        L1 == AssignAdvice(L, "lt", offset, IF lt THEN 1 ELSE 0)
        d == FAdd(FSub(lhs, rhs), IF lt THEN range ELSE 0)
    IN IF L1.err # "none" THEN L1 ELSE LtChip_assign_diff(L1, offset, d, 0)

RECURSIVE TestCircuit_rows(_, _, _, _, _, _)
TestCircuit_rows(L, off, values, checks, idx, value_prev) ==
    IF idx >= Len(values) \/ idx >= Len(checks) THEN L
    ELSE LET L1 == EnableSelector(L, "q_enable", off + idx + 1)
             L2 == AssignAdvice(L1, "check", off + idx + 1,
                                IF checks[idx + 1] THEN 1 ELSE 0)
             L3 == AssignAdvice(L2, "value", off + idx + 1, values[idx + 1])
             L4 == LtChip_assign(L3, off + idx + 1, value_prev, values[idx + 1])
         IN IF L4.err # "none" THEN L4
            ELSE TestCircuit_rows(L4, off, values, checks, idx + 1, values[idx + 1])

RECURSIVE BitLen(_)
BitLen(n) == IF n = 0 THEN 0 ELSE 1 + BitLen(n \div 2)

SortValues == {0, 1, 2, 4, 6, 9, FSub(range, 1)}

SortInputs == (UNION {[1 .. n -> SortValues] : n \in 1 .. MaxLen}) \cup {<<9, 4, 6, 2, 1>>}

\* checks[i] = (sorted[i] < sorted[i+1]), with the flag at position flip
\* (if any) inverted
ChecksFor(sorted, flip) ==
    [i \in 1 .. (Len(sorted) - 1) |->
        IF i = flip THEN ~(sorted[i] < sorted[i + 1]) ELSE sorted[i] < sorted[i + 1]]

SortInit ==
    /\ circuit = "sort"
    /\ \E vs \in SortInputs :
         \E flip \in 0 .. (Len(vs) - 1) :
            /\ input = [values |-> vs, checks |-> ChecksFor(bubble_sort(vs), flip),
                        flip |-> flip]
            /\ prover = NewProver(BitLen(Len(vs)) + 2, <<>>)
    /\ pc = "synthesize"
    /\ cells = NoCells
    /\ result = NoResult

TestCircuit_synthesize ==
    /\ circuit = "sort"
    /\ pc = "synthesize"
    /\ LET sorted_values == bubble_sort(input.values)
           first_value == sorted_values[1]
           rest == Tail(sorted_values)
           off == prover.next
           L1 == AssignAdvice(prover, "value", off + 0, first_value)
           L2 == TestCircuit_rows(L1, off, rest, input.checks, 0, first_value)
       IN /\ prover' = L2
          /\ pc' = Step(L2, "synthesized")
    /\ UNCHANGED <<circuit, input, cells, result>>

(***************************************************************************)
(* MockProver::verify, run on the grid of a synthesis that succeeded       *)
(***************************************************************************)
MockProver_verify ==
    /\ pc = "synthesized"
    /\ result' = [run |-> TRUE, failures |-> Verify(ConstraintSystem(circuit), prover)]
    /\ pc' = "done"
    /\ UNCHANGED <<circuit, input, prover, cells>>

Init ==
    \/ Example4Init
    \/ SortInit
    \/ Test1Init
    \/ Test2Init
    \/ ScenarioAInit
    \/ FibodynamicInit
    \/ ScenarioLInit
    \/ HashInit
    \/ SimpleInit
    \/ TableInit

Next ==
    \/ FabonacciChip_assign_first_row
    \/ FabonacciChip_assign_row
    \/ FabonacciChip_expose_public
    \/ TestCircuit_synthesize
    \/ FunctionChip_assign
    \/ FunctionChip_expose_public
    \/ Test2Chip_assign_first_row
    \/ Test2Chip_expose_public
    \/ ScenarioA_witness_row
    \/ ScenarioA_equality_request
    \/ FibonacciChip_load_table
    \/ FibonacciChip_assign
    \/ FibonacciChip_expose_public
    \/ ScenarioL_reassign_table_row
    \/ ScenarioL_witness_row
    \/ ScenarioL_constraints
    \/ HashTableConfig_load
    \/ HashCheckConfig_assign_simple
    \/ HashCheckConfig_assign_lookup
    \/ FieldChip_load_private
    \/ FieldChip_load_constant
    \/ FieldChip_mul
    \/ FieldChip_expose_public
    \/ RangTableConfig_load
    \/ TableCircuit_synthesize
    \/ MockProver_verify

Spec == Init /\ [][Next]_vars

Satisfied == result.run /\ result.failures = <<>>

(***************************************************************************)
(* The example circuits alone, each run by its own synthesize function     *)
(* and then checked (no directly supplied witness)                         *)
(***************************************************************************)
CodeInit ==
    \/ Example4Init
    \/ SortInit
    \/ Test1Init
    \/ Test2Init
    \/ FibodynamicInit
    \/ HashInit
    \/ SimpleInit
    \/ TableInit

CodeNext ==
    \/ FabonacciChip_assign_first_row
    \/ FabonacciChip_assign_row
    \/ FabonacciChip_expose_public
    \/ TestCircuit_synthesize
    \/ FunctionChip_assign
    \/ FunctionChip_expose_public
    \/ Test2Chip_assign_first_row
    \/ Test2Chip_expose_public
    \/ FibonacciChip_load_table
    \/ FibonacciChip_assign
    \/ FibonacciChip_expose_public
    \/ HashTableConfig_load
    \/ HashCheckConfig_assign_simple
    \/ HashCheckConfig_assign_lookup
    \/ FieldChip_load_private
    \/ FieldChip_load_constant
    \/ FieldChip_mul
    \/ FieldChip_expose_public
    \/ RangTableConfig_load
    \/ TableCircuit_synthesize
    \/ MockProver_verify

SpecCode == CodeInit /\ [][CodeNext]_vars

(***************************************************************************)
(* The checker run by parallel workers over a finished grid: the gate and  *)
(* lookup checks of the even and of the odd rows and the equality closure  *)
(* are five tasks that complete in any order; each appends its partial     *)
(* result to result.partial, and the aggregation merges them.              *)
(***************************************************************************)
ParTasks ==
    {<<"gate", 0>>, <<"gate", 1>>, <<"lookup", 0>>, <<"lookup", 1>>, <<"equality", 0>>}

WorkerResult(CS, L, task) ==
    CASE task[1] = "gate" -> {f \in GateFailures(CS, L) : f.row % 2 = task[2]}
      [] task[1] = "lookup" -> {f \in LookupFailures(CS, L) : f.row % 2 = task[2]}
      [] task[1] = "equality" -> EqualityFailures(CS, L)

RECURSIVE ConcatPartial(_)
ConcatPartial(partial) ==
    IF partial = <<>> THEN <<>>
    ELSE SortFailures(Head(partial).failures) \o ConcatPartial(Tail(partial))

\* the partial results appended in the order the workers completed
Aggregate_completion_order(CS, L, partial) ==
    ConcatPartial(partial) \o SortFailures(InstanceFailures(CS, L))

\* step 5: merge by category, then by row
Aggregate(CS, L, partial) ==
    LET all == UNION {partial[i].failures : i \in 1 .. Len(partial)}
    IN SortFailures({f \in all : f.cat = "gate"})
         \o SortFailures({f \in all : f.cat = "lookup"})
         \o SortFailures({f \in all : f.cat = "equality"})
         \o SortFailures(InstanceFailures(CS, L))

RECURSIVE ParRows(_, _, _)
ParRows(L, rows, i) ==
    IF i > Len(rows) THEN L
    ELSE LET L1 == EnableAll(L, {"s_add", "s_xor"}, L.next)
             L2 == AssignRowValues(L1, <<"col_a", "col_b", "col_c">>, L.next,
                                   rows[i], {}, 1)
         IN IF L2.err # "none" THEN L2 ELSE ParRows(L2, rows, i + 1)

\* a finished grid of the XOR-table circuit: two witness rows with both
\* selectors enabled, recorded pairs and an instance binding on row 0
ParGrid(rows, pairs, bind) ==
    LET CS == FibonacciChip_configure
        L0 == load_table_lhs(NewProver(4, <<1, 0>>),
                             <<"xor_table0", "xor_table1", "xor_table2">>, 0, 2)
        L1 == ParRows(L0, rows, 1)
        L2 == ConstrainAll(CS.permuted, L1, pairs)
    IN IF bind < 0 THEN L2
       ELSE ConstrainInstance(CS.permuted, L2, <<"col_c", 0>>, "instance", bind)

ParInit ==
    /\ circuit = "fibodynamic"
    /\ input = [nrows |-> 2, trange |-> 2]
    /\ \E r0 \in ScenarioLRows, r1 \in ScenarioLRows, pairs \in ScenarioLPairs,
          bind \in {-1, 0, 1} :
          prover = ParGrid(<<r0, r1>>, pairs, bind)
    /\ pc = "checking"
    /\ cells = NoCells
    /\ result = [run |-> FALSE, failures |-> <<>>, partial |-> <<>>]

Worker_complete ==
    /\ pc = "checking"
    /\ \E t \in ParTasks :
          /\ \A i \in 1 .. Len(result.partial) : result.partial[i].task # t
          /\ result' = [result EXCEPT !.partial =
                           Append(@, [task |-> t,
                                      failures |-> WorkerResult(ConstraintSystem(circuit),
                                                                prover, t)])]
    /\ UNCHANGED <<circuit, input, pc, prover, cells>>

Checker_aggregate ==
    /\ pc = "checking"
    /\ Len(result.partial) = Cardinality(ParTasks)
    /\ result' = [run |-> TRUE,
                  failures |-> Aggregate(ConstraintSystem(circuit), prover, result.partial),
                  partial |-> result.partial]
    /\ pc' = "done"
    /\ UNCHANGED <<circuit, input, prover, cells>>

ParNext ==
    \/ Worker_complete
    \/ Checker_aggregate

SpecPar == ParInit /\ [][ParNext]_vars

(***************************************************************************)
(* Scenario S: one enabled row of the sort circuit with the lt and diff    *)
(* cells supplied directly instead of by LtChip::assign                    *)
(***************************************************************************)
LtValues == {0, 1, 2, FSub(range, 1)}

LtCells == {0, 1, 2, P - 1}

\* diff cells: the limbs of a word below the range, or one free cell with
\* the other limbs zero
DiffCells ==
    { [i \in 1 .. N_BYTES |-> ReprByte(e, i - 1)] : e \in {0, 1, 2, 3, range - 2, range - 1} }
       \cup { [i \in 1 .. N_BYTES |-> IF i = 1 THEN x ELSE 0] : x \in Fp }

ScenarioSInit ==
    /\ circuit = "sort"
    /\ \E lhs \in LtValues, rhs \in LtValues, lt \in LtCells, d \in DiffCells :
          input = [lhs |-> lhs, rhs |-> rhs, lt |-> lt, diff |-> d]
    /\ prover = NewProver(2, <<>>)
    /\ pc = "witness"
    /\ cells = NoCells
    /\ result = NoResult

ScenarioS_witness_rows ==
    /\ circuit = "sort"
    /\ pc = "witness"
    /\ LET off == prover.next
           L1 == AssignAdvice(prover, "value", off + 0, input.lhs)
           L2 == EnableSelector(L1, "q_enable", off + 1)
           L3 == AssignAdvice(L2, "check", off + 1, input.lt)
           L4 == AssignAdvice(L3, "value", off + 1, input.rhs)
           L5 == AssignAdvice(L4, "lt", off + 1, input.lt)
           L6 == AssignRowValues(L5, diff, off + 1, input.diff, {}, 1)
       IN /\ prover' = L6
          /\ cells' = [n |-> 1]
          /\ pc' = Step(L6, "synthesized")
    /\ UNCHANGED <<circuit, input, result>>

LtNext ==
    \/ ScenarioS_witness_rows
    \/ MockProver_verify

SpecLt == ScenarioSInit /\ [][LtNext]_vars

(***************************************************************************)
(* The helper functions of sort.rs applied to inputs of their own:         *)
(* range_check and bool_check evaluated on a cell holding w, bubble_sort   *)
(* on a vector                                                             *)
(***************************************************************************)
\* largest range of a range check
MaxRange == 8

RangeCheckInit ==
    /\ circuit = "range_check"
    /\ \E w \in Fp, rng \in 1 .. MaxRange : input = [w |-> w, rng |-> rng]
    /\ prover = NewProver(1, <<>>)
    /\ pc = "call"
    /\ cells = NoCells
    /\ result = NoResult

\* the expressions built on a query of the cell, evaluated at its row
range_check_call ==
    /\ circuit = "range_check"
    /\ pc = "call"
    /\ LET L1 == AssignAdvice(prover, "lt", 0, input.w)
           word == QueryAdvice("lt", RotCur)
       IN /\ prover' = L1
          /\ cells' = [range_check |-> Eval(range_check(word, input.rng), L1, 0),
                       bool_check |-> Eval(bool_check(word), L1, 0)]
    /\ pc' = "returned"
    /\ UNCHANGED <<circuit, input, result>>

BubbleInputs == {<<>>} \cup SortInputs

BubbleSortInit ==
    /\ circuit = "bubble_sort"
    /\ \E numbers \in BubbleInputs : input = [numbers |-> numbers]
    /\ prover = NewProver(1, <<>>)
    /\ pc = "call"
    /\ cells = NoCells
    /\ result = NoResult

\* whether a run of bubble_sort panics: length - 1 underflows, or an index
\* target[j], target[j + 1] is out of bounds, in an iteration that is run
bubble_sort_panics(numbers) ==
    LET length == Len(numbers)
    IN \E i \in 0 .. (length - 1) :
          \/ length - 1 < 0
          \/ \E j \in 0 .. (length - 2) : j >= Len(numbers) \/ j + 1 >= Len(numbers)

bubble_sort_call ==
    /\ circuit = "bubble_sort"
    /\ pc = "call"
    /\ cells' = [target |-> bubble_sort(input.numbers),
                 numbers |-> input.numbers,
                 panicked |-> bubble_sort_panics(input.numbers)]
    /\ pc' = "returned"
    /\ UNCHANGED <<circuit, input, prover, result>>

FnInit ==
    \/ RangeCheckInit
    \/ BubbleSortInit

FnNext ==
    \/ range_check_call
    \/ bubble_sort_call

SpecFn == FnInit /\ [][FnNext]_vars

(***************************************************************************)
(* testwinterfall: the do_work computation, its execution trace and its    *)
(* AIR (one transition constraint, two boundary assertions).  The field    *)
(* is the model's field; prover holds the trace, cells the public inputs.  *)
(***************************************************************************)
\* longest execution trace
MaxTraceLength == 8

RECURSIVE do_work_loop(_, _, _)
do_work_loop(result_, i, n) ==
    IF i >= n THEN result_
    ELSE do_work_loop(FAdd(FPow(result_, 3), 42 % P), i + 1, n)

\* for _ in 1..n { result = result.exp(3) + 42 }
do_work(start, n) == do_work_loop(start, 1, n)

\* TraceTable::fill: the first closure writes row 0, the second computes
\* each next row from the current one
RECURSIVE TraceTable_fill(_, _)
TraceTable_fill(trace, n) ==
    IF Len(trace) >= n THEN trace
    ELSE TraceTable_fill(Append(trace, FAdd(FPow(trace[Len(trace)], 3), 42 % P)), n)

\* the next state computed as the square of the current one plus 42
RECURSIVE TraceTable_fill_square(_, _)
TraceTable_fill_square(trace, n) ==
    IF Len(trace) >= n THEN trace
    ELSE TraceTable_fill_square(Append(trace, FAdd(FPow(trace[Len(trace)], 2), 42 % P)), n)

build_do_work_trace_square(start, n) == TraceTable_fill_square(<<start>>, n)

build_do_work_trace(start, n) == TraceTable_fill(<<start>>, n)

\* result[0] = frame.next()[0] - (current_state.exp(3) + 42)
evaluate_transition(current, next) == FSub(next, FAdd(FPow(current, 3), 42 % P))

\* Assertion::single(column, step, value), as <<step, value>> of column 0
get_assertions(start, result_, trace_length) ==
    LET last_step == trace_length - 1
    IN << <<0, start>>, <<last_step, result_>> >>

\* the AIR evaluated on the trace: steps whose transition constraint is not
\* zero, then assertions the trace does not meet
WorkAir_failures(trace, pub_inputs) ==
    LET as == get_assertions(pub_inputs.start, pub_inputs.result, Len(trace))
    IN SortFailures({ Failure("transition", "", i, 0, 0, "nonzero", {}) :
                        i \in { j \in 0 .. (Len(trace) - 2) :
                                  evaluate_transition(trace[j + 1], trace[j + 2]) # 0 } })
       \o SortFailures({ Failure("assertion", "", as[i][1], 1, i, "boundary mismatch", {}) :
                           i \in { j \in 1 .. Len(as) : trace[as[j][1] + 1] # as[j][2] } })

WorkInit ==
    /\ circuit = "testwinterfall"
    /\ \E start \in Fp, n \in 2 .. MaxTraceLength : input = [start |-> start, n |-> n]
    /\ prover = [trace |-> <<>>]
    /\ pc = "build_trace"
    /\ cells = NoCells
    /\ result = NoResult

\* main: the trace, and the result read from its last step
main_build_do_work_trace ==
    /\ pc = "build_trace"
    /\ LET trace == build_do_work_trace(input.start, input.n)
       IN /\ prover' = [trace |-> trace]
          /\ cells' = [result |-> trace[(input.n - 1) + 1]]
    /\ pc' = "prove"
    /\ UNCHANGED <<circuit, input, result>>

\* prover.prove(trace): the public inputs are read from the trace
WorkProver_get_pub_inputs ==
    /\ pc = "prove"
    /\ LET last_step == Len(prover.trace) - 1
       IN cells' = [start |-> prover.trace[0 + 1], result |-> prover.trace[last_step + 1]]
    /\ pc' = "verify"
    /\ UNCHANGED <<circuit, input, prover, result>>

\* the constraints checked against the public inputs
WorkAir_verify ==
    /\ pc = "verify"
    /\ result' = [run |-> TRUE, failures |-> WorkAir_failures(prover.trace, cells)]
    /\ pc' = "do_work"
    /\ UNCHANGED <<circuit, input, prover, cells>>

do_work_call ==
    /\ pc = "do_work"
    /\ cells' = [start |-> cells.start, result |-> cells.result,
                 work |-> do_work(input.start, input.n)]
    /\ pc' = "done"
    /\ UNCHANGED <<circuit, input, prover, result>>

WorkNext ==
    \/ main_build_do_work_trace
    \/ WorkProver_get_pub_inputs
    \/ WorkAir_verify
    \/ do_work_call

SpecWork == WorkInit /\ [][WorkNext]_vars

(***************************************************************************)
(* Properties                                                              *)
(***************************************************************************)
FailureIdx(cat) == {i \in 1 .. Len(result.failures) : result.failures[i].cat = cat}

FailuresAt(cat, row) == {i \in FailureIdx(cat) : result.failures[i].row = row}

UsedRows == 0 .. (prover.next - 1)

\* row r of the selection circuit holds cond = 1, thenv = 2, elsev = 3 and the
\* given output, with the gate's selector enabled
SelectionRow(r, out) ==
    /\ <<"selector", r>> \in prover.sels
    /\ ValueOf(prover, <<SelectionCols(circuit)[1], r>>) = 1
    /\ ValueOf(prover, <<SelectionCols(circuit)[2], r>>) = 2
    /\ ValueOf(prover, <<SelectionCols(circuit)[3], r>>) = 3
    /\ ValueOf(prover, <<SelectionCols(circuit)[4], r>>) = out

\* C1: with the selector enabled at its row, the witness cond=1, thenv=2,
\* elsev=3, out=2 gives no gate violation at that row (and the checker
\* returns Satisfied when every row is such a row), and the same witness
\* with out=3 gives exactly one gate violation, reported at that row.
C1_SelectionGate ==
    (circuit \in {"test1", "test2"} /\ pc = "done") =>
        /\ \A r \in UsedRows :
              /\ SelectionRow(r, 2) => FailuresAt("gate", r) = {}
              /\ SelectionRow(r, 3) => Cardinality(FailuresAt("gate", r)) = 1
        /\ ((\A r \in UsedRows : SelectionRow(r, 2)) /\ prover.binds = {})
              => Satisfied

C1_Witness ==
    /\ circuit = "test1"
    /\ pc = "done"
    /\ SelectionRow(0, 2)
    /\ SelectionRow(1, 3)
    /\ Len(result.failures) = 1
    /\ result.failures[1].cat = "gate"
    /\ result.failures[1].row = 1

\* C2: the copy-chained recurrence run for n >= 3 terms from f0 = f1 = 1
\* synthesizes without error when its n - 2 rows fit the grid, and the
\* checker returns Satisfied when instance row 2 holds the n-th term (5 for
\* n = 5 in three regions, 55 for n = 10).
C2_RecurrenceSatisfied ==
    (/\ circuit = "example4"
     /\ input.k >= 3
     /\ prover.inst = <<1, 1, Term(1, 1, input.k)>>) =>
        /\ (input.k - 2 <= Height(prover)) => pc # "error"
        /\ pc = "done" => Satisfied
        /\ (pc = "done" /\ input.k = 5) => (prover.inst[3] = 5 /\ prover.next = 3)
        /\ (pc = "done" /\ input.k = 10) => prover.inst[3] = 55

C2_Witness ==
    /\ circuit = "example4"
    /\ pc = "done"
    /\ input.k = 10
    /\ prover.inst = <<1, 1, 55>>
    /\ ValueOf(prover, cells.prev_c) = 55
    /\ Satisfied

\* C3: with a correct witness, a changed public value of the final term makes
\* the checker fail with exactly one instance-mismatch violation and no gate
\* violation.
C3_InstanceMismatch ==
    (/\ circuit = "example4"
     /\ pc = "done"
     /\ prover.inst[3] # Term(prover.inst[1], prover.inst[2], TermsOf(input.k))) =>
        /\ Cardinality(FailureIdx("instance")) = 1
        /\ FailureIdx("gate") = {}

C3_Witness ==
    /\ circuit = "example4"
    /\ pc = "done"
    /\ input.k = 5
    /\ prover.inst = <<1, 1, 6>>
    /\ Len(result.failures) = 1
    /\ result.failures[1].cat = "instance"

\* C4: for every input of the sort circuit whose flags are
\* checks[i] = (sorted[i] < sorted[i+1]), synthesis succeeds and the witness
\* satisfies both lt-gate constraints and the adjacency gate at every enabled
\* row: the checker returns Satisfied.
C4_SortSatisfied ==
    (circuit = "sort" /\ input.flip = 0) =>
        /\ pc # "error"
        /\ pc = "done" => Satisfied

C4_Witness ==
    /\ circuit = "sort"
    /\ pc = "done"
    /\ input.values = <<9, 4, 6, 2, 1>>
    /\ input.checks = <<TRUE, TRUE, TRUE, TRUE>>
    /\ [r \in 1 .. 5 |-> ValueOf(prover, <<"value", r - 1>>)] = <<1, 2, 4, 6, 9>>
    /\ \A r \in 1 .. 4 : <<"q_enable", r>> \in prover.sels
    /\ Satisfied

\* C5: on a correctly sorted witness, inverting a single adjacency flag
\* makes the checker report a gate violation at the row of that adjacency,
\* from bool_check or from the gate lt - check = 0.
C5_FlippedFlag ==
    (circuit = "sort" /\ pc = "done" /\ input.flip # 0) =>
        \E i \in FailuresAt("gate", input.flip) :
            \/ result.failures[i].name = "check is_lt between adjacent rows"
            \/ result.failures[i].name = "lt gate" /\ result.failures[i].idx = 1

C5_Witness ==
    /\ circuit = "sort"
    /\ pc = "done"
    /\ input.values = <<9, 4, 6, 2, 1>>
    /\ input.flip = 3
    /\ input.checks = <<TRUE, TRUE, FALSE, TRUE>>
    /\ FailuresAt("gate", 3) # {}

XorTableOver01 == {<<0, 0, 0>>, <<0, 1, 1>>, <<1, 0, 1>>, <<1, 1, 0>>}

RowTuple(r) ==
    <<ValueOf(prover, <<"col_a", r>>), ValueOf(prover, <<"col_b", r>>),
      ValueOf(prover, <<"col_c", r>>)>>

\* C6: with the XOR table over {0,1} loaded, an enabled lookup row is
\* reported "not found in table" exactly when its whole tuple is not a table
\* row: inputs (1,1) fail with output 1 and pass with output 0, although
\* every entry of (1,1,1) occurs in its column of the table.
C6_LookupFullTuple ==
    (circuit = "fibodynamic" /\ input.trange = 2 /\ pc = "done") =>
        /\ TableRows(prover, <<"xor_table0", "xor_table1", "xor_table2">>) = XorTableOver01
        /\ \A r \in UsedRows :
              <<"s_xor", r>> \in prover.sels =>
                 /\ RowTuple(r) = <<1, 1, 1>> =>
                       \E i \in FailuresAt("lookup", r) :
                           result.failures[i].reason = "not found in table"
                 /\ RowTuple(r) = <<1, 1, 0>> => FailuresAt("lookup", r) = {}
                 /\ (FailuresAt("lookup", r) = {}) <=> (RowTuple(r) \in XorTableOver01)

C6_Witness ==
    /\ circuit = "fibodynamic"
    /\ input.trange = 2
    /\ pc = "done"
    /\ prover.sels = {<<"s_xor", 0>>, <<"s_xor", 1>>}
    /\ RowTuple(0) = <<1, 1, 1>>
    /\ RowTuple(1) = <<1, 1, 0>>
    /\ FailuresAt("lookup", 0) # {}
    /\ FailuresAt("lookup", 1) = {}

\* the selector that each circuit's assignment code enables for its gates
GateSelector ==
    CASE circuit \in {"example4", "test1", "test2"} -> "selector"
      [] circuit = "sort" -> "q_enable"
      [] circuit = "fibodynamic" -> "s_add"
      [] circuit = "hash_check" -> "q_hash_check"
      [] circuit = "simple_example" -> "s_mul"
      [] circuit = "table" -> "q_selector"

\* C7: no gate failure is reported at a row where the gate's selector is
\* not enabled, whatever the queried cells hold (or if they hold nothing).
C7_DisabledGateSilent ==
    pc = "done" =>
        \A i \in FailureIdx("gate") :
            <<GateSelector, result.failures[i].row>> \in prover.sels

C7_Witness ==
    /\ circuit = "test1"
    /\ pc = "done"
    /\ prover.sels = {<<"selector", 1>>}
    /\ ValueOf(prover, <<"cond", 0>>) = 1
    /\ ValueOf(prover, <<"output", 0>>) = 3
    /\ SelectionRow(1, 2)
    /\ result.failures = <<>>

CellA == <<"col_a", 0>>

CellB == <<"col_b", 0>>

CellC == <<"col_c", 0>>

\* C8: the equality check works on the closure of the recorded pairs: with
\* A=B and B=C recorded (and A=C never recorded) and A, C holding different
\* values there is exactly one equality violation, and it references the
\* whole class; in general there is exactly one equality violation per
\* class whose members disagree and none for the others.
C8_EqualityClosure ==
    (circuit = "fibodynamic" /\ input.trange = 2 /\ pc = "done") =>
        /\ (/\ prover.eqs = {{CellA, CellB}, {CellB, CellC}}
            /\ ValueOf(prover, CellA) # ValueOf(prover, CellC)) =>
               /\ Cardinality(FailureIdx("equality")) = 1
               /\ \A i \in FailureIdx("equality") :
                     {CellA, CellC} \subseteq result.failures[i].cells
        /\ \A p \in prover.eqs :
              Cardinality({i \in FailureIdx("equality") : p \subseteq result.failures[i].cells})
                 = IF \E x, y \in Closure(p, prover.eqs) :
                            ValueOf(prover, x) # ValueOf(prover, y)
                   THEN 1 ELSE 0

C8_Witness ==
    /\ circuit = "fibodynamic"
    /\ input.trange = 2
    /\ pc = "done"
    /\ prover.eqs = {{CellA, CellB}, {CellB, CellC}}
    /\ RowTuple(0) = <<1, 1, 0>>
    /\ Cardinality(FailureIdx("equality")) = 1

\* C9: an assigned cell keeps its value through every later step; assigning
\* the same (column, row, value) again succeeds and changes nothing
\* (assign_simple, which writes its cell three times, ends without error
\* with one cell written); assigning another value to an assigned cell
\* fails with Shadowing and leaves the stored value as it was.
C9_AssignOnce ==
    [][/\ \A c \in DOMAIN prover.grid :
             c \in DOMAIN prover'.grid /\ prover'.grid[c] = prover.grid[c]
       /\ (circuit = "hash_check" /\ pc = "assign_simple") =>
             /\ prover'.err = "none"
             /\ prover'.grid = (<<"value", prover.next>> :> input.value) @@ prover.grid
       /\ (circuit \in {"test1", "test2"} /\ pc = "witness" /\ cells'.again = "other") =>
             /\ prover'.err = "Shadowing"
             /\ prover'.grid[<<SelectionCols(circuit)[1], prover.next>>] = cells'.cond
       /\ (circuit \in {"test1", "test2"} /\ pc = "witness" /\ cells'.again = "same") =>
             /\ prover'.err = "none"
             /\ prover'.grid[<<SelectionCols(circuit)[1], prover.next>>] = cells'.cond
      ]_vars

C9_Witness ==
    /\ circuit = "hash_check"
    /\ pc = "assign_lookup"
    /\ prover.err = "none"
    /\ input.value = 7
    /\ prover.grid = (<<"value", 0>> :> 7)

Rank(cat) ==
    CASE cat = "gate" -> 1
      [] cat = "lookup" -> 2
      [] cat = "equality" -> 3
      [] cat = "instance" -> 4

\* C10: the checker does not stop at the first failure: every failing gate
\* row, lookup row, equality class and instance binding is in the returned
\* list, which has gate failures first, then lookup, equality and instance
\* failures, in ascending row order inside each category.
C10_CompleteOrderedReport ==
    pc = "done" =>
        /\ \A i, j \in 1 .. Len(result.failures) :
              i < j =>
                 /\ Rank(result.failures[i].cat) <= Rank(result.failures[j].cat)
                 /\ result.failures[i].cat = result.failures[j].cat
                       => result.failures[i].row <= result.failures[j].row
        /\ (circuit = "fibodynamic" /\ input.trange = 2) =>
              /\ \A r \in UsedRows :
                    /\ (/\ <<"s_add", r>> \in prover.sels
                        /\ FAdd(RowTuple(r)[1], RowTuple(r)[2]) # RowTuple(r)[3])
                          => FailuresAt("gate", r) # {}
                    /\ (<<"s_xor", r>> \in prover.sels /\ RowTuple(r) \notin XorTableOver01)
                          => FailuresAt("lookup", r) # {}
              /\ \A p \in prover.eqs :
                    (\E x, y \in p : ValueOf(prover, x) # ValueOf(prover, y))
                       => \E i \in FailureIdx("equality") : p \subseteq result.failures[i].cells
              /\ \A b \in prover.binds :
                    ValueOf(prover, b.cell) # prover.inst[b.irow + 1]
                       => \E i \in FailureIdx("instance") : result.failures[i].cells = {b.cell}

C10_Witness ==
    /\ circuit = "fibodynamic"
    /\ input.trange = 2
    /\ pc = "done"
    /\ Len(result.failures) = 5
    /\ [i \in 1 .. 5 |-> result.failures[i].cat]
          = <<"gate", "gate", "lookup", "equality", "instance">>
    /\ [i \in 1 .. 5 |-> result.failures[i].row] = <<0, 1, 1, 0, 0>>

\* C11: an equality-constraint request (copy_advice,
\* assign_advice_from_instance, constrain_instance) is rejected with
\* ColumnNotPermuted exactly when one of its columns was never passed to
\* enable_equality, and the rejected request records no equality pair, no
\* binding and no cell; test1's instance column is such a column, so its
\* expose_public (a constrain_instance on it) is rejected.
C11_ColumnNotPermuted ==
    [][/\ (prover.err = "none" /\ prover'.err = "ColumnNotPermuted") =>
             /\ prover'.eqs = prover.eqs
             /\ prover'.binds = prover.binds
             /\ prover'.grid = prover.grid
       /\ (circuit = "test1" /\ pc = "expose_public") =>
             /\ "instance" \notin ConstraintSystem(circuit).permuted
             /\ prover'.err = "ColumnNotPermuted"
             /\ pc' = "error"
       /\ (pc = "witness_request" /\ cells'.req # "none") =>
             ((prover'.err = "ColumnNotPermuted")
                <=> ~(RequestColumns(circuit, cells'.req)
                         \subseteq ConstraintSystem(circuit).permuted))
      ]_vars

C11_Witness ==
    /\ circuit = "test1"
    /\ "cond" \in DOMAIN input
    /\ pc = "error"
    /\ prover.err = "ColumnNotPermuted"
    /\ ValueOf(prover, cells.c) = 2
    /\ prover.eqs = {}
    /\ prover.binds = {}

\* C12: the test1 selection circuit run end to end (cond = 1, thenval = 2,
\* elseval = 3, public inputs [2], k = 4) completes synthesis without error
\* and the checker then returns Ok(()).
C12_Test1EndToEnd ==
    (/\ circuit = "test1"
     /\ "cond" \in DOMAIN input
     /\ input = [cond |-> 1, thenval |-> 2, elseval |-> 3]
     /\ prover.k = 4
     /\ prover.inst = <<2>>) =>
        /\ prover.err = "none"
        /\ pc # "error"
        /\ pc = "done" => Satisfied

XorTable == <<"xor_table0", "xor_table1", "xor_table2">>

\* C13: the 8-row mixed recurrence started from instance values (1,1)
\* synthesizes without error in one region; every even row has s_add
\* enabled and c = a + b, every odd row has s_xor enabled and (a, b, c) with
\* c = a XOR b is a row of the loaded 32x32 table, every later row's a and
\* b hold the previous row's b and c and are tied to them by the recorded
\* copy constraints, and the last c cell holds 21, so the checker returns Ok for public inputs [1, 1, 21].
C13_MixedRecurrence ==
    (/\ circuit = "fibodynamic"
     /\ input.trange = XorTableRange
     /\ pc \in {"expose_public", "synthesized", "done", "error"}) =>
        /\ pc # "error"
        /\ Cardinality(LoadedIdx(prover, XorTable)) = XorTableRange * XorTableRange
        /\ prover.next = input.nrows
        /\ \A r \in 0 .. (input.nrows - 1) :
              /\ r % 2 = 0 =>
                    /\ <<"s_add", r>> \in prover.sels
                    /\ <<"s_xor", r>> \notin prover.sels
                    /\ RowTuple(r)[3] = FAdd(RowTuple(r)[1], RowTuple(r)[2])
              /\ r % 2 = 1 =>
                    /\ <<"s_xor", r>> \in prover.sels
                    /\ <<"s_add", r>> \notin prover.sels
                    /\ RowTuple(r)[3] = BitXor(RowTuple(r)[1], RowTuple(r)[2])
                    /\ RowTuple(r) \in TableRows(prover, XorTable)
              /\ r >= 1 =>
                    /\ RowTuple(r)[1] = RowTuple(r - 1)[2]
                    /\ RowTuple(r)[2] = RowTuple(r - 1)[3]
                    /\ <<"col_a", r>> \in Closure({<<"col_b", r - 1>>}, prover.eqs)
                    /\ <<"col_b", r>> \in Closure({<<"col_c", r - 1>>}, prover.eqs)
        /\ cells.c = <<"col_c", input.nrows - 1>>
        /\ ValueOf(prover, cells.c) = 21
        /\ (pc = "done" /\ prover.inst = <<1, 1, 21>>) => Satisfied

C13_Witness ==
    /\ circuit = "fibodynamic"
    /\ input.trange = XorTableRange
    /\ input.nrows = 8
    /\ pc = "done"
    /\ prover.inst = <<1, 1, 21>>
    /\ RowTuple(3) = <<3, 5, 6>>
    /\ RowTuple(7) = <<13, 24, 21>>
    /\ prover.binds = {[cell |-> <<"col_c", 7>>, irow |-> 2]}
    /\ Satisfied

\* C14: for all constant, a and b the multiplication circuit synthesizes
\* without error (two private loads, one constant load, three mul regions
\* chained by copy_advice), the exposed cell holds constant * (a*b)^2, and
\* the checker returns Ok exactly when instance row 0 equals that value
\* (252 for constant = 7, a = 2, b = 3).
C14_MulCircuit ==
    circuit = "simple_example" =>
        /\ pc # "error"
        /\ pc \in {"expose_public", "synthesized", "done"} =>
              /\ ValueOf(prover, cells.ab) = FMul(input.a, input.b)
              /\ ValueOf(prover, cells.absq)
                    = FMul(FMul(input.a, input.b), FMul(input.a, input.b))
              /\ ValueOf(prover, cells.c)
                    = FMul(input.constant,
                           FMul(FMul(input.a, input.b), FMul(input.a, input.b)))
        /\ pc = "done" =>
              (Satisfied <=> prover.inst[1] = ValueOf(prover, cells.c))
        /\ (pc = "done" /\ input = [constant |-> 7, a |-> 2, b |-> 3]) =>
              (Satisfied <=> prover.inst = <<252>>)

C14_Witness ==
    /\ circuit = "simple_example"
    /\ pc = "done"
    /\ input = [constant |-> 7, a |-> 2, b |-> 3]
    /\ prover.inst = <<252>>
    /\ ValueOf(prover, cells.c) = 252
    /\ prover.next = 9
    /\ Satisfied

\* C15: the test2 selection circuit loads cond, thenval and elseval from
\* instance rows 0, 1, 2 (each load recording the equality with its instance
\* cell) and binds the output cell to instance row 3; for cond in {0,1} the
\* checker returns Ok exactly when instance row 3 equals thenval (cond = 1)
\* or elseval (cond = 0); the inputs [1,2,3,2] return Ok.
C15_Test2Selection ==
    (/\ circuit = "test2"
     /\ Len(prover.inst) = 4
     /\ prover.inst[1] \in {0, 1}) =>
        /\ pc # "error"
        /\ pc \in {"expose_public", "synthesized", "done"} =>
              /\ ValueOf(prover, <<"col_a", 0>>) = prover.inst[1]
              /\ ValueOf(prover, <<"col_b", 0>>) = prover.inst[2]
              /\ ValueOf(prover, <<"col_c", 0>>) = prover.inst[3]
              /\ prover.eqs = {{<<"col_a", 0>>, <<"instance", 0>>},
                               {<<"col_b", 0>>, <<"instance", 1>>},
                               {<<"col_c", 0>>, <<"instance", 2>>}}
        /\ pc \in {"synthesized", "done"} =>
              prover.binds = {[cell |-> <<"col_out", 0>>, irow |-> 3]}
        /\ pc = "done" =>
              (Satisfied <=> prover.inst[4] = IF prover.inst[1] = 1 THEN prover.inst[2]
                                             ELSE prover.inst[3])

C15_Witness ==
    /\ circuit = "test2"
    /\ pc = "done"
    /\ prover.inst = <<1, 2, 3, 2>>
    /\ ValueOf(prover, <<"col_out", 0>>) = 2
    /\ prover.binds = {[cell |-> <<"col_out", 0>>, irow |-> 3]}
    /\ Satisfied

\* C16: for every value i and lookup value j of the test, the hash-check
\* circuit (table of all rows (lhs, rhs, lhs XOR rhs) loaded, value = i
\* assigned in the simple region, lookup_value = j assigned in the lookup
\* region with q_lookup enabled) synthesizes and is reported satisfied.
C16_HashCheckSatisfied ==
    circuit = "hash_check" =>
        /\ pc # "error"
        /\ pc = "done" => Satisfied

\* C17: with the table loaded with [0,3,4,5,7,8,15,16,18] and the lookup
\* selector enabled at the row that holds the witness value v, the checker
\* returns Ok if and only if v is one of the loaded values (Ok for v = 8).
C17_SingleColumnLookup ==
    circuit = "table" =>
        /\ pc # "error"
        /\ pc \in {"synthesized", "done"} =>
              /\ <<"q_selector", cells.c[2]>> \in prover.sels
              /\ ValueOf(prover, cells.c) = input.value
              /\ TableRows(prover, <<"col_value">>)
                    = {<<TableValues[i]>> : i \in 1 .. Len(TableValues)}
        /\ pc = "done" =>
              (Satisfied <=> \E i \in 1 .. Len(TableValues) : TableValues[i] = input.value)
        /\ (pc = "done" /\ input.value = 8) => Satisfied

C17_Witness ==
    /\ circuit = "table"
    /\ pc = "done"
    /\ input.value = 8
    /\ prover.sels = {<<"q_selector", 0>>}
    /\ ValueOf(prover, <<"a", 0>>) = 8
    /\ Cardinality(LoadedIdx(prover, <<"col_value">>)) = 9
    /\ Satisfied

\* C18: regions are laid out by a bump offset: a step never lowers the end
\* of the allocated rows, every cell or selector a region writes lies at or
\* after the end of all regions allocated before it and before the new end
\* (so no two regions share a row and offsets are non-decreasing), and a
\* cell assigned at relative row r lies at absolute row offset + r (the
\* one-row regions of assign_row, the two-row regions of mul with the
\* product at relative row 1).  Constants of the enable_constant column
\* are placed outside the regions.
C18_BumpOffset ==
    [][/\ prover'.next >= prover.next
       /\ \A c \in (DOMAIN prover'.grid) \ (DOMAIN prover.grid) :
             c[1] # "constant" => (c[2] >= prover.next /\ c[2] < prover'.next)
       /\ \A x \in prover'.sels \ prover.sels :
             x[2] >= prover.next /\ x[2] < prover'.next
       /\ (/\ circuit = "simple_example"
           /\ pc \in {"mul_ab", "mul_absq", "mul_c"}
           /\ pc' # "error") =>
             /\ prover'.next = prover.next + 2
             /\ <<"s_mul", prover.next>> \in prover'.sels
             /\ {<<"advice0", prover.next>>, <<"advice1", prover.next>>,
                 <<"advice0", prover.next + 1>>} \subseteq DOMAIN prover'.grid
       /\ (/\ circuit = "example4"
           /\ pc = "loop"
           /\ cells.n < input.k
           /\ pc' # "error") =>
             /\ prover'.next = prover.next + 1
             /\ cells'.prev_c = <<"c", prover.next>>
             /\ {<<"a", prover.next>>, <<"b", prover.next>>, <<"c", prover.next>>}
                   \subseteq DOMAIN prover'.grid
      ]_vars

C18_Witness ==
    /\ circuit = "simple_example"
    /\ pc = "expose_public"
    /\ cells.a = <<"advice0", 0>>
    /\ cells.b = <<"advice0", 1>>
    /\ cells.constant = <<"advice0", 2>>
    /\ cells.ab = <<"advice0", 4>>
    /\ cells.absq = <<"advice0", 6>>
    /\ cells.c = <<"advice0", 8>>
    /\ prover.sels = {<<"s_mul", 3>>, <<"s_mul", 5>>, <<"s_mul", 7>>}
    /\ prover.next = 9

\* C19: the grid has 2^k rows: no cell, selector or table row is ever
\* written at a row >= 2^k (such an assignment fails with RowOutOfRange),
\* and every assignment made by the example circuits lies below 2^k for the
\* k they pass, so none of them fails with RowOutOfRange.
C19_RowsBelowHeight ==
    /\ \A c \in DOMAIN prover.grid : c[2] < Height(prover)
    /\ \A x \in prover.sels : x[2] < Height(prover)
    /\ \A t \in DOMAIN prover.table : t[2] < Height(prover)
    /\ prover.next <= Height(prover)
    /\ prover.err # "RowOutOfRange"

\* C20: with the gate checks, the lookup checks and the equality closure
\* run by parallel workers over the same finished grid, the aggregated
\* result is, for every completion order of the workers, the result of the
\* sequential checker: Satisfied, or the same ordered failure list.
C20_ParallelDeterministic ==
    (pc = "done" /\ "partial" \in DOMAIN result) =>
        /\ result.failures = Verify(ConstraintSystem(circuit), prover)
        /\ Satisfied <=> Verify(ConstraintSystem(circuit), prover) = <<>>

C20_Witness ==
    /\ pc = "done"
    /\ "partial" \in DOMAIN result
    /\ [i \in 1 .. 5 |-> result.partial[i].task]
          = <<<<"equality", 0>>, <<"lookup", 1>>, <<"gate", 1>>, <<"lookup", 0>>, <<"gate", 0>>>>
    /\ result.partial[2].failures # {}
    /\ result.partial[3].failures # {}
    /\ Len(result.failures) = 5
    /\ [i \in 1 .. 5 |-> result.failures[i].cat]
          = <<"gate", "gate", "lookup", "equality", "instance">>
    /\ [i \in 1 .. 5 |-> result.failures[i].row] = <<0, 1, 1, 0, 0>>

\* C21: an assignment failure is returned from the failing call and ends
\* synthesis with that error: the error is set by the step that makes the
\* failing call, nothing runs after it, and the checker never runs on the
\* partially filled grid, so a failed synthesis has neither a Satisfied nor
\* a Violations result.
C21_SynthesisAborts ==
    [][/\ (prover'.err # "none") =>
             /\ prover.err = "none"
             /\ pc' = "error"
             /\ result' = result
             /\ ~result'.run
             /\ result'.failures = <<>>
       /\ pc # "error"
       /\ result'.run => (pc = "synthesized" /\ prover.err = "none"
                             /\ prover' = prover)
      ]_vars

C21_Witness ==
    /\ circuit = "example4"
    /\ pc = "error"
    /\ prover.err = "RowOutOfRange"
    /\ cells.n = 19
    /\ <<"c", 15>> \in DOMAIN prover.grid
    /\ ~result.run
    /\ result.failures = <<>>

\* entries the loader of the circuit writes
TableLen ==
    CASE circuit = "fibodynamic" -> input.trange * input.trange
      [] circuit = "hash_check" -> input.lookup_range * input.lookup_range
      [] circuit = "table" -> Len(TableValues)
      [] OTHER -> 0

TableColumns ==
    LET CS == ConstraintSystem(circuit)
    IN UNION { {CS.lookups[i].table[j] : j \in 1 .. Len(CS.lookups[i].table)} :
                  i \in 1 .. Len(CS.lookups) }

\* C22: table rows are written from index 0 upwards without a gap, a table
\* cell once written keeps its value (a re-assignment with another value
\* fails with Shadowing and overwrites nothing, one with the same value
\* changes nothing), the example loaders write exactly the rows 0..n-1 of
\* their n entries, and the checker runs only after the loader has written
\* every row of every table a lookup references.
C22_TableRows ==
    [][/\ \A c \in DOMAIN prover.table :
             c \in DOMAIN prover'.table /\ prover'.table[c] = prover.table[c]
       /\ \A c \in DOMAIN prover'.table :
             \A j \in 0 .. c[2] : <<c[1], j>> \in DOMAIN prover'.table
       /\ (pc = "witness_reassign") =>
             /\ prover'.table = prover.table
             /\ (prover'.err = "Shadowing")
                   <=> (prover.table[<<"xor_table2", cells'.idx>>] # cells'.v)
             /\ prover'.err \in {"none", "Shadowing"}
       /\ (pc \in {"load_table", "witness_table", "load"}) =>
             /\ prover.table = <<>>
             /\ (prover'.err = "none") =>
                   DOMAIN prover'.table = TableColumns \X (0 .. (TableLen - 1))
             /\ (prover'.err # "none") =>
                   /\ prover'.err = "RowOutOfRange"
                   /\ TableLen > Height(prover)
                   /\ DOMAIN prover'.table = TableColumns \X Rows(prover)
       /\ (result'.run /\ ~result.run) =>
             /\ prover' = prover
             /\ DOMAIN prover.table = TableColumns \X (0 .. (TableLen - 1))
             /\ \A i \in 1 .. Len(ConstraintSystem(circuit).lookups) :
                   LoadedIdx(prover, ConstraintSystem(circuit).lookups[i].table)
                      = 0 .. (TableLen - 1)
      ]_vars

C22_Witness ==
    /\ circuit = "fibodynamic"
    /\ pc = "error"
    /\ prover.err = "Shadowing"
    /\ "idx" \in DOMAIN cells
    /\ cells.idx = 3
    /\ cells.v = 1
    /\ prover.table[<<"xor_table2", 3>>] = 0
    /\ DOMAIN prover.table = {"xor_table0", "xor_table1", "xor_table2"} \X (0 .. 3)

\* the (column, rotation) queries of an expression
RECURSIVE Queries(_)
Queries(e) ==
    CASE e.tag \in {"Advice", "Fixed"} -> {<<e.col, e.rot>>}
      [] e.tag \in {"Constant", "Selector"} -> {}
      [] e.tag \in {"Negated", "Scaled"} -> Queries(e.a)
      [] e.tag \in {"Sum", "Product"} -> Queries(e.a) \cup Queries(e.b)

\* every constraint polynomial and lookup input of the circuit
Exprs ==
    LET CS == ConstraintSystem(circuit)
    IN UNION ({ {CS.gates[i].polys[j] : j \in 1 .. Len(CS.gates[i].polys)} :
                  i \in 1 .. Len(CS.gates) }
              \cup { {CS.lookups[i].inputs[j] : j \in 1 .. Len(CS.lookups[i].inputs)} :
                       i \in 1 .. Len(CS.lookups) })

\* C23: an unassigned cell is not a cell holding zero: on every reachable
\* grid, every constraint polynomial and lookup input of the circuit, at
\* every row, evaluates to a field element exactly when each cell it
\* queries lies inside the grid and is assigned; it fails with
\* UnassignedCell when a queried cell was never assigned and with
\* OutOfBounds when a rotation leaves [0, grid_height), and a cell assigned
\* zero reads as zero.
C23_UnassignedIsNotZero ==
    /\ \A c \in DOMAIN prover.grid :
          ReadCell(prover, c[1], c[2]) = prover.grid[c] /\ prover.grid[c] \in Fp
    /\ \A e \in Exprs :
         LET qs == Queries(e)
             assigned == DOMAIN prover.grid
             height == Height(prover)
         IN \A row \in 0 .. (height - 1) :
          LET v == Eval(e, prover, row)
              outside == \E q \in qs : row + q[2] < 0 \/ row + q[2] >= height
              unset == \E q \in qs : /\ row + q[2] >= 0
                                      /\ row + q[2] < height
                                      /\ <<q[1], row + q[2]>> \notin assigned
          IN /\ v \in Fp \cup {UnassignedCell, OutOfBounds}
             /\ (v \in Fp) <=> (~outside /\ ~unset)
             /\ (v = UnassignedCell) => unset
             /\ (v = OutOfBounds) => outside
             /\ (unset /\ ~outside) => v = UnassignedCell
             /\ (outside /\ ~unset) => v = OutOfBounds

\* the lookup region of hash_check assigns value only: the lookup inputs of
\* its row read the unassigned lhs and rhs cells, next to a value cell that
\* holds zero
C23_Witness ==
    /\ circuit = "hash_check"
    /\ pc = "done"
    /\ prover.grid[<<"value", 1>>] = 0
    /\ <<"lhs", 1>> \notin DOMAIN prover.grid
    /\ \E e \in Exprs : Eval(e, prover, 1) = UnassignedCell
    /\ \E e \in Exprs : Eval(e, prover, 1) \in Fp

\* C24: the trace built for start and n >= 2 has n rows, row 0 is start and
\* every next row is the cube of the current one plus 42, so the transition
\* constraint is zero on every pair of consecutive rows and both boundary
\* assertions hold for the public inputs read from the trace (which are the
\* start value and the result main reads); do_work(start, n) is the last
\* row.
C24_WorkTrace ==
    (circuit = "testwinterfall" /\ pc # "build_trace") =>
        LET t == prover.trace
        IN /\ Len(t) = input.n
           /\ t[1] = input.start
           /\ \A i \in 1 .. (input.n - 1) :
                 /\ t[i + 1] = (t[i] * t[i] * t[i] + 42) % P
                 /\ evaluate_transition(t[i], t[i + 1]) = 0
           /\ (pc = "prove") => cells.result = t[Len(t)]
           /\ (pc \in {"verify", "do_work", "done"}) =>
                 /\ cells.start = input.start
                 /\ cells.result = t[input.n]
           /\ (pc \in {"do_work", "done"}) => (result.run /\ result.failures = <<>>)
           /\ (pc = "done") => cells.work = t[input.n]

C24_Witness ==
    /\ circuit = "testwinterfall"
    /\ pc = "done"
    /\ input = [start |-> 3, n |-> 8]
    /\ prover.trace = <<3, 69, 321, 518, 15, 291, 476, 92>>
    /\ cells = [start |-> 3, result |-> 92, work |-> 92]
    /\ result.run
    /\ result.failures = <<>>

\* C25: when both constraints of the lt gate hold at an enabled row whose
\* lhs and rhs are below the range, the lt cell is 1 if lhs < rhs and 0
\* otherwise, whatever the lt and diff cells were assigned.
C25_LtSound ==
    (/\ circuit = "sort"
     /\ "lt" \in DOMAIN input
     /\ pc = "done"
     /\ input.lhs < range
     /\ input.rhs < range
     /\ \A i \in FailuresAt("gate", 1) : result.failures[i].name # "lt gate") =>
        ValueOf(prover, <<"lt", 1>>) = IF input.lhs < input.rhs THEN 1 ELSE 0

\* w * (1 - w) * (2 - w) * ... * ((rng - 1) - w) in the field
RECURSIVE RangeProduct(_, _)
RangeProduct(w, rng) ==
    IF rng <= 1 THEN w ELSE FMul(RangeProduct(w, rng - 1), FSub((rng - 1) % P, w))

\* C26: for every field element w and every range >= 1 below the modulus,
\* range_check(w, range) evaluates to w(1-w)(2-w)...((range-1)-w), which is
\* zero exactly when w is one of 0..range-1; bool_check(w) is zero exactly
\* when w is 0 or 1.
C26_RangeCheck ==
    (circuit = "range_check" /\ pc = "returned") =>
        /\ cells.range_check = RangeProduct(input.w, input.rng)
        /\ (cells.range_check = 0) <=> (input.w \in 0 .. (input.rng - 1))
        /\ (cells.bool_check = 0) <=> (input.w \in {0, 1})

C26_Witness ==
    /\ circuit = "range_check"
    /\ pc = "returned"
    /\ input = [w |-> 7, rng |-> 8]
    /\ cells.range_check = 0
    /\ cells.bool_check = FMul(7, FSub(1, 7))

Count(s, v) == Cardinality({i \in 1 .. Len(s) : s[i] = v})

\* C27: for every input vector, the empty and the one-element ones
\* included, bubble_sort returns without panicking a vector in ascending
\* order that is a permutation of the input, and the input is as it was.
C27_BubbleSort ==
    (circuit = "bubble_sort" /\ pc = "returned") =>
        /\ ~cells.panicked
        /\ Len(cells.target) = Len(input.numbers)
        /\ \A i \in 1 .. (Len(cells.target) - 1) : cells.target[i] <= cells.target[i + 1]
        /\ \A v \in SortValues : Count(cells.target, v) = Count(input.numbers, v)
        /\ \A i \in 1 .. Len(cells.target) : cells.target[i] \in SortValues
        /\ cells.numbers = input.numbers
        /\ (input.numbers = <<9, 4, 6, 2, 1>>) => cells.target = <<1, 2, 4, 6, 9>>
        /\ (Len(input.numbers) <= 1) => cells.target = input.numbers

C27_Witness ==
    /\ circuit = "bubble_sort"
    /\ pc = "returned"
    /\ input.numbers = <<9, 4, 6, 2, 1>>
    /\ cells.target = <<1, 2, 4, 6, 9>>
    /\ ~cells.panicked

\* C28: for every (cond, thenval, elseval) the witness written by test1's
\* FunctionChip::assign (output = thenval if cond = 1, otherwise elseval)
\* satisfies the gate s*(cond*thenval + (1-cond)*elseval - output) at the
\* row where the selector is enabled.
C28_AssignSatisfiesGate ==
    (/\ circuit = "test1"
     /\ "cond" \in DOMAIN input
     /\ pc \in {"expose_public", "error"}
     /\ "c" \in DOMAIN cells) =>
        /\ <<"selector", cells.c[2]>> \in prover.sels
        /\ ValueOf(prover, cells.c)
              = IF input.cond = 1 THEN input.thenval ELSE input.elseval
        /\ Eval(FunctionChip_gate(QuerySelector("selector"), QueryAdvice("cond", RotCur),
                                  QueryAdvice("thenval", RotCur),
                                  QueryAdvice("elseval", RotCur),
                                  QueryAdvice("output", RotCur)),
                prover, cells.c[2]) = 0

Lookups == ConstraintSystem(circuit).lookups

\* rows where a selector of lookup i is not enabled
DisabledRows(i) ==
    {row \in Rows(prover) :
        \E s \in UnionSelectors(Lookups[i].inputs) : <<s, row>> \notin prover.sels}

ZeroRow(i) == [j \in 1 .. Len(Lookups[i].table) |-> 0]

TableLoaded == pc \notin {"load", "load_table", "witness_table"}

\* C29: on every row where a lookup's selector is not enabled each
\* selector-scaled input expression evaluates to zero, every example's
\* loaded table contains the all-zero row, and such rows never produce a
\* lookup failure.
C29_DisabledLookupRows ==
    \A i \in 1 .. Len(Lookups) :
       /\ \A row \in DisabledRows(i) :
             \A j \in 1 .. Len(Lookups[i].inputs) :
                Eval(Lookups[i].inputs[j], prover, row) = 0
       /\ TableLoaded => ZeroRow(i) \in TableRows(prover, Lookups[i].table)
       /\ \A f \in FailureIdx("lookup") :
             (result.failures[f].ord = i) => result.failures[f].row \notin DisabledRows(i)

\* C29 as it holds: on a row where the lookup's selector is not enabled, a
\* selector-scaled input evaluates to zero when the cell it queries is
\* assigned and fails with UnassignedCell when it is not; the loaded tables
\* contain the all-zero row; the checker visits only the rows where the
\* selector is enabled, so a disabled row never produces a lookup failure.
C29_DisabledLookupRowsAmended ==
    \A i \in 1 .. Len(Lookups) :
       LET disabled == DisabledRows(i)
       IN /\ \A j \in 1 .. Len(Lookups[i].inputs) :
                LET e == Lookups[i].inputs[j]
                    qs == Queries(e)
                    assigned == DOMAIN prover.grid
                IN \A row \in disabled :
                      /\ \A q \in qs : row + q[2] \in Rows(prover)
                      /\ Eval(e, prover, row)
                            = IF \A q \in qs : <<q[1], row + q[2]>> \in assigned
                              THEN 0 ELSE UnassignedCell
          /\ TableLoaded => ZeroRow(i) \in TableRows(prover, Lookups[i].table)
          /\ \A f \in FailureIdx("lookup") :
                (result.failures[f].ord = i) => result.failures[f].row \notin disabled

\* the XOR circuit after the checker ran: row 0 is an addition row holding
\* (1, 1, 2) with the lookup selector off, row 8 is unassigned
C29_Witness ==
    /\ circuit = "fibodynamic"
    /\ pc = "done"
    /\ input.trange = XorTableRange
    /\ RowTuple(0) = <<1, 1, 2>>
    /\ {0, 8} \subseteq DisabledRows(1)
    /\ \A j \in 1 .. 3 : Eval(Lookups[1].inputs[j], prover, 0) = 0
    /\ \A j \in 1 .. 3 : Eval(Lookups[1].inputs[j], prover, 8) = UnassignedCell
    /\ <<"s_xor", 1>> \in prover.sels
    /\ FailureIdx("lookup") = {}

====
